---- MODULE Spec2Model ----
(***************************************************************************)
(* A state-machine model of the OpenClaw custom skills: the OmniPublisher  *)
(* compliance guard and publisher, the BlackSnow harvesters, normalizer,   *)
(* accumulator, memory and pipeline, and the media orchestrator.  Each     *)
(* skill is an independent script, so each has its own specification over  *)
(* its own variables; the variables of the other skills stay idle.         *)
(***************************************************************************)
EXTENDS Integers, Sequences, FiniteSets, TLC

VARIABLES
    \* ---- OmniPublisher compliance guard (guards/compliance.py) ----
    now,        \* time.time(), in whole seconds
    ledgerFile, \* compliance_ledger.json: NoFile or a ledger
    guard,      \* guard slot -> NoGuard or a constructed ComplianceGuard
    instCount,  \* number of ComplianceGuard instances constructed so far
    posts,      \* history: every log_post made so far, in call order
    lastOp,     \* the check that ran last with its result, NoOp after another step
    \* ---- OmniPublisher (scripts/publisher.py) ----
    distLedger, \* distribution_ledger.jsonl: the entries appended so far
    \* ---- network-backed fetches (BlackSnow harvesters, LOR-K scanners) ----
    hOp,        \* the fetch operation called
    hResponse,  \* what the upstream answered
    hResult,    \* NotCalled, or what the operation returned / whether it raised
    \* ---- BlackSnow Accumulator ----
    belief_states,  \* Accumulator.belief_states: vector -> belief
    accLast,        \* NoOp, or the vector, prior and magnitude of the last update
    \* ---- BlackSnowMemory ----
    stateFile,  \* state.json: NoFile, or the JSON text last written
    memory,     \* the live BlackSnowMemory's self.state, or NoMemory
    made,       \* vector -> number of updates made for it so far
    memLast,    \* NoOp, or the argument of the last update_belief_states
    \* ---- BlackSnow run_full_pipeline ----
    pPc,        \* the stage the run is about to perform, "returned" or "raised"
    pUrl,       \* webhook_url
    pRaw,       \* raw_signals
    pStages,    \* the stages performed so far, in order
    pResults,   \* NoResults, or the results record returned
    \* ---- BlackSnow Normalizer ----
    nText,      \* the text handed to _detect_ontology, a sequence of characters
    nResult,    \* NotCalled, or the path returned
    \* ---- media orchestrator main ----
    oPc,        \* where main is: "which", "spotify", "select", "download",
                \* "returned" or "raised"
    oRequest,   \* the arguments of main
    oRun,       \* has_ffmpeg, the yt-dlp format and file chosen, and how the
                \* Spotify skill and yt-dlp ended
    oMessages,  \* the `openclaw message send` commands issued, in order
    pair,         \* two callers of the guard: where each is in new, check, log_post
    xIndex,       \* harvest_all_extended: the harvester the loop is at
    xInvoked,     \* history: the harvesters invoked so far, in order
    xReturned,    \* history: what each invoked harvester returned
    all_signals,  \* the list built so far
    xResult,      \* what harvest_all_extended returned
    today,        \* the UTC day, which names the files store_* appends to
    signalsFiles, \* signals_<day>.jsonl: the records of each day's file
    vectorsFiles, \* vectors_<day>.jsonl
    storeLast,    \* the last store_* call: what it was given and returned
    tText,        \* _detect_signal_type: the text given
    tResult,      \* what it returned
    sigBeliefs,   \* Accumulator.belief_states of a run fed by the Normalizer
    sigPending,   \* the normalized signal waiting to be accumulated
    sigLast,      \* the signal just accumulated and the belief it met
    fBeliefs,     \* Forecaster.forecast: belief_states.items(), in insertion order
    fResult,      \* the forecasts it returned
    sPc,          \* run_full_pipeline, its data: the stage the run is at
    sRaw,         \* raw_signals
    sNormalized,  \* normalized
    sBeliefs,     \* belief_states.items(), in insertion order
    sForecasts,   \* forecasts
    sPrimitives,  \* primitives
    wCaller,      \* who calls deliver: run_full_pipeline or webhook.py itself
    wTier,        \* config.tier
    wPrimitives,  \* the primitives given to deliver
    wPosts,       \* history: the POST attempts made, by their payloads
    wResult,      \* what deliver returned
    wReturned,    \* results["primitives"] of run_full_pipeline once it returned
    lProfile,       \* LOR_Engine.profile
    lOpp,           \* the opportunity given to calculate_eligibility
    lOpps,          \* the opportunities given to generate_daily_report
    lResult,        \* what calculate_eligibility returned
    lReport,        \* what generate_daily_report returned or raised
    scanPc,         \* how far run_full_scan has come
    raw_items,      \* what scan_all_queries returned
    unique_items,   \* what deduplicate returned
    recent_items,   \* what filter_by_date returned
    scanOpps,       \* what extract_opportunities returned
    spEnv,          \* SPOTIFY_CLIENT_ID and SPOTIFY_CLIENT_SECRET
    spArgs,         \* sys.argv[1] and sys.argv[2:]
    spPc,           \* where the invocation of spotify_surface.py stands
    access_token,   \* SpotifySurface.access_token
    spTrack,        \* what search_track returned
    spMetadata,     \* what persist_metadata returned
    spTrace,        \* requests made, files written and lines printed, in order
    tvText,         \* the text given to handle_command
    tvEnv,          \* the environment variable TV_IP
    tvArgv,         \* the arguments of the tv_control.py subprocess, once started
    tvDevice,       \* how get_device ended in the subprocess
    tvShell,        \* the shell commands sent to the device
    tvReply         \* what handle_command returned

guardVars == <<ledgerFile, guard, instCount, posts, lastOp>>
pubVars == <<distLedger>>
harvVars == <<hOp, hResponse, hResult>>
accVars == <<belief_states, accLast>>
memVars == <<stateFile, memory, made, memLast>>
pipeVars == <<pPc, pUrl, pRaw, pStages, pResults>>
normVars == <<nText, nResult>>
orchVars == <<oPc, oRequest, oRun, oMessages>>
pairVars == <<pair>>
allVars == <<xIndex, xInvoked, xReturned, all_signals, xResult>>
storeVars == <<today, signalsFiles, vectorsFiles, storeLast>>
typeVars == <<tText, tResult>>
sigVars == <<sigBeliefs, sigPending, sigLast>>
foreVars == <<fBeliefs, fResult>>
stageVars == <<sPc, sRaw, sNormalized, sBeliefs, sForecasts, sPrimitives>>
webVars == <<wCaller, wTier, wPrimitives, wPosts, wResult, wReturned>>
lorVars == <<lProfile, lOpp, lOpps, lResult, lReport>>
scanVars == <<scanPc, raw_items, unique_items, recent_items, scanOpps>>
spotVars == <<spEnv, spArgs, spPc, access_token, spTrack, spMetadata, spTrace>>
tvVars == <<tvText, tvEnv, tvArgv, tvDevice, tvShell, tvReply>>

vars == <<now, guardVars, pubVars, harvVars, accVars, memVars,
          pipeVars, normVars, orchVars, pairVars, allVars, storeVars,
          typeVars, sigVars, foreVars, stageVars, webVars, lorVars,
          scanVars, spotVars, tvVars>>

----------------------------------------------------------------------------
(* Python dictionaries: functions whose domain is the set of keys present. *)

EmptyDict == <<>>

Get(d, k, default) == IF k \in DOMAIN d THEN d[k] ELSE default

Put(d, k, v) == [x \in (DOMAIN d) \cup {k} |-> IF x = k THEN v ELSE d[x]]

InSeq(x, s) == \E i \in 1..Len(s) : s[i] = x

----------------------------------------------------------------------------
(* OmniPublisher: ComplianceGuard                                          *)

Cooldown == 120

\* Bounds of the guard model: instances constructed, posts logged, seconds
\* of clock time covered.
MaxInstances == 3
MaxPosts == 2
MaxElapsed == 120

\* The epoch clock is far past one cooldown when the program runs.
StartTime == 10 * Cooldown

\* Two handles, each holding at most one live instance at a time.
GuardSlots == {1, 2}
Platforms == {"twitter"}
None == "None"
\* Targets that name no channel: the key is the platform alone.
Targets == {None, ""}
Texts == {"hello", "world"}
TickSteps == {Cooldown - 1, Cooldown}

\* No compliance_ledger.json on disk; a slot holding no instance.
NoFile == [absent |-> TRUE]
NoGuard == [id |-> 0]
NoOp == [op |-> "none"]

\* hashlib.sha256(text.encode()).hexdigest(): deterministic and collision-free.
Sha256(text) == <<"sha256", text>>

\* f"{platform}:{target}" if target else platform
TargetKey(platform, target) ==
    IF target \in {None, ""} THEN <<platform>> ELSE <<platform, target>>

FreshLedger == [hashes |-> EmptyDict, last_posts |-> EmptyDict]

\* Mutant: _load_ledger ignores the file.
LoadLedgerFresh == FreshLedger

\* _load_ledger: the file's content if it exists, a fresh ledger otherwise.
LoadLedger == IF ledgerFile = NoFile THEN FreshLedger ELSE ledgerFile

\* Whether a ledger holds a post: its hash under its key, and a last-post
\* time for the key that is not older than the post.
Holds(ledger, p) ==
    /\ InSeq(Sha256(p.text), Get(ledger.hashes, p.key, <<>>))
    /\ Get(ledger.last_posts, p.key, 0) >= p.time

\* check(): the duplicate test, then the cooldown test.
CheckResult(ledger, key, text, t) ==
    IF InSeq(Sha256(text), Get(ledger.hashes, key, <<>>)) THEN FALSE
    ELSE IF t - Get(ledger.last_posts, key, 0) < Cooldown THEN FALSE
    ELSE TRUE

\* Mutant: log_post forgets to set the last-post time.
LoggedLedgerNoTime(ledger, key, text, t) ==
    [hashes |-> Put(ledger.hashes, key,
                    Append(Get(ledger.hashes, key, <<>>), Sha256(text))),
     last_posts |-> ledger.last_posts]

\* Mutant: log_post replaces the key's hash list instead of appending to it.
LoggedLedgerOverwrite(ledger, key, text, t) ==
    [hashes |-> Put(ledger.hashes, key, <<Sha256(text)>>),
     last_posts |-> Put(ledger.last_posts, key, t)]

\* Mutant: log_post restarts the cooldown of every key the ledger knows.
LoggedLedgerAllKeys(ledger, key, text, t) ==
    [hashes |-> Put(ledger.hashes, key,
                    Append(Get(ledger.hashes, key, <<>>), Sha256(text))),
     last_posts |-> [k \in DOMAIN ledger.last_posts \cup {key} |-> t]]

\* log_post(): append the hash, set the last-post time.
LoggedLedger(ledger, key, text, t) ==
    [hashes |-> Put(ledger.hashes, key,
                    Append(Get(ledger.hashes, key, <<>>), Sha256(text))),
     last_posts |-> Put(ledger.last_posts, key, t)]

PostSet == {posts[i] : i \in 1..Len(posts)}

\* What the guard leaves alone: the other skills' state.
GuardFrame ==
    UNCHANGED <<pubVars, harvVars, accVars, memVars, pipeVars, normVars,
                orchVars, pairVars, allVars, storeVars, typeVars, sigVars,
                foreVars, stageVars, webVars, lorVars, scanVars, spotVars,
                tvVars>>

GuardIdle ==
    /\ ledgerFile = NoFile
    /\ guard = [g \in GuardSlots |-> NoGuard]
    /\ instCount = 0
    /\ posts = <<>>
    /\ lastOp = NoOp

\* ComplianceGuard(workspace): a new instance loads the ledger from the file.
\* seen is history: the posts the file held when the instance loaded it,
\* and the instance's own posts.
NewGuard(g) ==
    /\ instCount < MaxInstances
    /\ \A h \in GuardSlots : h < g => guard[h] # NoGuard   \* handles are taken in order
    /\ instCount' = instCount + 1
    /\ guard' = [guard EXCEPT ![g] =
                    [id |-> instCount + 1,
                     ledger |-> LoadLedger,
                     seen |-> {p \in PostSet : ledgerFile # NoFile /\ Holds(ledgerFile, p)}]]
    /\ lastOp' = NoOp
    /\ UNCHANGED <<now, ledgerFile, posts>>
    /\ GuardFrame

\* Mutant: an approved check starts the cooldown itself.
CheckStartsCooldown(g, platform, text, target) ==
    /\ guard[g] # NoGuard
    /\ lastOp' = [op |-> "check", id |-> guard[g].id,
                  key |-> TargetKey(platform, target), text |-> text,
                  result |-> CheckResult(guard[g].ledger,
                                         TargetKey(platform, target), text, now)]
    /\ guard' = [guard EXCEPT ![g].ledger.last_posts =
                    IF CheckResult(guard[g].ledger, TargetKey(platform, target), text, now)
                    THEN Put(@, TargetKey(platform, target), now) ELSE @]
    /\ UNCHANGED <<now, ledgerFile, instCount, posts>>
    /\ GuardFrame

Check(g, platform, text, target) ==
    /\ guard[g] # NoGuard
    /\ lastOp' = [op |-> "check", id |-> guard[g].id,
                  key |-> TargetKey(platform, target), text |-> text,
                  result |-> CheckResult(guard[g].ledger,
                                         TargetKey(platform, target), text, now)]
    /\ UNCHANGED <<now, ledgerFile, guard, instCount, posts>>
    /\ GuardFrame

LogPost(g, platform, text, target) ==
    /\ guard[g] # NoGuard
    /\ Len(posts) < MaxPosts
    /\ LET key == TargetKey(platform, target)
           new == LoggedLedger(guard[g].ledger, key, text, now)
           p == [id |-> guard[g].id, key |-> key, text |-> text, time |-> now,
                 born |-> instCount]
       IN /\ guard' = [guard EXCEPT ![g].ledger = new,
                                    ![g].seen = @ \cup {p}]
          /\ ledgerFile' = new
          /\ posts' = Append(posts, p)
          /\ lastOp' = [op |-> "log_post", id |-> guard[g].id]
    /\ UNCHANGED <<now, instCount>>
    /\ GuardFrame

Tick(d) ==
    /\ now + d <= StartTime + MaxElapsed
    /\ now' = now + d
    /\ lastOp' = NoOp
    /\ UNCHANGED <<ledgerFile, guard, instCount, posts>>
    /\ GuardFrame

GuardNext ==
    \/ \E g \in GuardSlots : NewGuard(g)
    \/ \E g \in GuardSlots, pl \in Platforms, tx \in Texts, tg \in Targets :
          Check(g, pl, tx, tg)
    \/ \E g \in GuardSlots, pl \in Platforms, tx \in Texts, tg \in Targets :
          LogPost(g, pl, tx, tg)
    \/ \E d \in TickSteps : Tick(d)


\* The live instance that made the last check or log_post.
Actor == CHOOSE g \in GuardSlots : guard[g].id = lastOp.id

Checked == lastOp.op = "check"

\* C1: after log_post on a key at time t, every check on that key by the same
\* guard made less than 120 seconds after t returns False, whatever the text:
\* a check that returns True is at least 120 seconds after each of the
\* guard's own posts on the key.
C1_CooldownBlocks ==
    (Checked /\ lastOp.result) =>
        \A i \in 1..Len(posts) :
            (posts[i].id = lastOp.id /\ posts[i].key = lastOp.key)
                => now - posts[i].time >= Cooldown

\* C1 witness: a check of a different text, 119 seconds after the guard's
\* post on the key, is blocked.
C1_Witness ==
    /\ Checked /\ ~lastOp.result
    /\ \E i \in 1..Len(posts) :
          /\ posts[i].id = lastOp.id /\ posts[i].key = lastOp.key
          /\ posts[i].text # lastOp.text
          /\ now - posts[i].time = Cooldown - 1
    /\ ~InSeq(Sha256(lastOp.text), Get(guard[Actor].ledger.hashes, lastOp.key, <<>>))

\* C2 as stated: once a post is recorded, a check of the identical text on the
\* same key never returns True, in the same instance or in any instance
\* constructed after the post.
C2_Original ==
    (Checked /\ lastOp.result) =>
        ~\E i \in 1..Len(posts) :
            /\ posts[i].key = lastOp.key /\ posts[i].text = lastOp.text
            /\ (posts[i].id = lastOp.id \/ lastOp.id > posts[i].born)

\* C2 amended: a check of the identical text on the same key never returns
\* True in the instance that logged the post, nor in an instance that loaded
\* the ledger while the file held the post, however much time has passed.
C2_DuplicateBlocked ==
    (Checked /\ lastOp.result) =>
        ~\E p \in guard[Actor].seen :
            p.key = lastOp.key /\ p.text = lastOp.text

\* C2 witness: another instance's post, loaded from the file, blocks the
\* check of the same text after the cooldown has run out.
C2_Witness ==
    /\ Checked /\ ~lastOp.result
    /\ now - Get(guard[Actor].ledger.last_posts, lastOp.key, 0) >= Cooldown
    /\ \E p \in guard[Actor].seen :
          p.key = lastOp.key /\ p.text = lastOp.text /\ p.id # lastOp.id

\* C5 as stated: every post ever logged is still held by the ledger file,
\* whichever instance saved the file last.
C5_Original ==
    \A i \in 1..Len(posts) : ledgerFile # NoFile /\ Holds(ledgerFile, posts[i])

\* C5 amended: after a log_post the file is the logging instance's ledger and
\* holds every post that instance logged itself or found in the file when it
\* loaded the ledger.
C5_AppendOnlyPerInstance ==
    lastOp.op = "log_post" =>
        /\ ledgerFile = guard[Actor].ledger
        /\ \A p \in guard[Actor].seen : Holds(ledgerFile, p)

\* C5 witness: a post of another instance survives a later log_post.
C5_Witness ==
    /\ lastOp.op = "log_post"
    /\ \E p \in guard[Actor].seen : p.id # lastOp.id /\ Holds(ledgerFile, p)

\* The ledger of every live instance, by instance id.
Ledgers == {<<guard[g].id, guard[g].ledger>> : g \in {h \in GuardSlots : guard[h] # NoGuard}}

\* C14: check is read-only: a step that is a check leaves every in-memory
\* ledger and compliance_ledger.json as they were, whatever it returns; and
\* the ledger of an instance or the file changes only in a log_post step.
C14_CheckReadOnly ==
    [][/\ lastOp'.op = "check" =>
              /\ ledgerFile' = ledgerFile
              /\ Ledgers' = Ledgers
       /\ (ledgerFile' # ledgerFile
           \/ \E l \in Ledgers : \E m \in Ledgers' : l[1] = m[1] /\ l[2] # m[2])
              => lastOp'.op = "log_post"]_vars

\* C14 witness: a check was approved and left no trace: the instance's ledger
\* has no entry for the key and there is no ledger file.
C14_Witness ==
    /\ Checked /\ lastOp.result
    /\ lastOp.key \notin DOMAIN guard[Actor].ledger.last_posts
    /\ lastOp.key \notin DOMAIN guard[Actor].ledger.hashes
    /\ ledgerFile = NoFile

----------------------------------------------------------------------------
(* OmniPublisher: publish                                                  *)

\* Bound: entries in distribution_ledger.jsonl.
MaxEntries == 3

\* Platforms a payload may name; mutate_content knows the first two.
PubPlatforms == {"twitter", "telegram", "mastodon"}
Mutated == {"twitter", "telegram"}
PlatformLists == {<<a>> : a \in PubPlatforms} \cup
                 {<<a, b>> : a \in PubPlatforms, b \in PubPlatforms}

\* apply_jitter's default window: random.randint(5, 15), its two ends.
Jitter == {5, 15}

\* mutate_content: a platform-specific rewrite of the caption, or the caption
\* itself for a platform it does not know.
MutateContent(base, platform) ==
    IF platform \in Mutated THEN <<platform, base>> ELSE base

Caption(base, platform, mutate) ==
    IF mutate THEN MutateContent(base, platform) ELSE base

\* _log_success: one "success" entry.
SuccessEntry(t, platform, content) ==
    [time |-> t, platform |-> platform, content_hash |-> Sha256(content),
     status |-> "success"]

\* The loop of publish over the payload's platforms, starting at time t:
\* <<the ledger afterwards, the time afterwards>>.  Nothing is asked of the
\* ComplianceGuard; every platform gets its entry.  delays[i] is the jitter
\* slept after platform i (0 when the strategy's mode is not "window").
RECURSIVE PublishLoop(_, _, _, _, _, _, _)
PublishLoop(ledger, t, base, platforms, mutate, delays, i) ==
    IF i > Len(platforms) THEN <<ledger, t>>
    ELSE PublishLoop(
            Append(ledger, SuccessEntry(t, platforms[i],
                                        Caption(base, platforms[i], mutate))),
            t + delays[i], base, platforms, mutate, delays, i + 1)

PubIdle == distLedger = <<>>

PubFrame ==
    UNCHANGED <<guardVars, harvVars, accVars, memVars, pipeVars, normVars,
                orchVars, pairVars, allVars, storeVars, typeVars, sigVars,
                foreVars, stageVars, webVars, lorVars, scanVars, spotVars,
                tvVars>>

\* OmniPublisher.publish(payload)
Publish(base, platforms, mutate, delays) ==
    /\ Len(distLedger) + Len(platforms) <= MaxEntries
    /\ LET r == PublishLoop(distLedger, now, base, platforms, mutate, delays, 1)
       IN /\ r[2] <= StartTime + MaxElapsed
          /\ distLedger' = r[1]
          /\ now' = r[2]
    /\ PubFrame

\* Time passing between two runs of the publisher.
PubTick(d) ==
    /\ now + d <= StartTime + MaxElapsed
    /\ now' = now + d
    /\ UNCHANGED distLedger
    /\ PubFrame

PubNext ==
    \/ \E base \in Texts, pl \in PlatformLists, mutate \in BOOLEAN,
          window \in BOOLEAN, d1 \in Jitter, d2 \in Jitter :
          Publish(base, pl, mutate,
                  IF window THEN <<d1, d2>> ELSE <<0, 0>>)
    \/ \E d \in TickSteps : PubTick(d)


\* C6: a success entry is recorded for a platform only if the compliance
\* guard approved the content for it: no two entries of one platform carry
\* the same content hash, and none follows the platform's previous entry
\* by less than the cooldown.
C6_GuardedPublish ==
    \A i \in 1..Len(distLedger), j \in 1..Len(distLedger) :
        (i < j /\ distLedger[i].platform = distLedger[j].platform) =>
            /\ distLedger[i].content_hash # distLedger[j].content_hash
            /\ distLedger[j].time - distLedger[i].time >= Cooldown

----------------------------------------------------------------------------
(* Network-backed fetches: the five live BlackSnow harvesters of           *)
(* harvester_extended.py, MultiSourceScanner.fetch_google_news_rss and     *)
(* TelegramScraper.fetch_latest_messages.                                  *)

\* Bound: records in one upstream response.
MaxRecords == 3

\* entries[:20] of the SEC feed, results[:15] of the NHTSA recalls.
SecLimit == 20
DotLimit == 15

FetchOps == {"fedreg", "sec", "usaspending", "dot", "fema", "google_rss", "telegram"}

\* Operations that build their list outside the try block and return it after
\* the except clause; the other two build and return it inside the try block.
KeepsPartial == {"fedreg", "sec", "usaspending", "dot", "fema"}

\* What a record of an "ok" response can be for an operation:
\*   good     processing appends a signal built from it
\*   skip     processing passes over it (no keyword, no title, no text element)
\*   bad      processing throws on it (title null for fedreg, Award Amount not a
\*            number for usaspending, Summary null for dot, not an object for fema)
\*   nontext  processing appends a signal whose raw_text is not a string
\*            (Summary a list for dot, declarationTitle null for fema)
RecKinds(op) ==
    CASE op = "fedreg"      -> {"good", "skip", "bad"}
      [] op = "sec"         -> {"good", "skip"}
      [] op = "usaspending" -> {"good", "bad"}
      [] op = "dot"         -> {"good", "bad", "nontext"}
      [] op = "fema"        -> {"good", "bad", "nontext"}
      [] op = "google_rss"  -> {"good", "skip"}
      [] op = "telegram"    -> {"good", "skip"}

\* The fetch failed (exception, or HTTP status other than 200), the body does
\* not parse, the parsed body has the wrong top-level shape, or it is "ok"
\* and carries records.
ResponseKinds == {"fetch_failed", "unparsable", "wrong_shape", "ok"}

RecordLists(op) ==
    UNION {[1..n -> RecKinds(op)] : n \in 0..MaxRecords}

Responses(op) ==
    {[kind |-> k, records |-> <<>>] : k \in ResponseKinds \ {"ok"}} \cup
    {[kind |-> "ok", records |-> r] : r \in RecordLists(op)}

\* The slice of the records the loop runs over.
Limit(op) ==
    CASE op = "sec" -> SecLimit
      [] op = "dot" -> DotLimit
      [] OTHER -> MaxRecords + 1

Sliced(op, records) ==
    IF Len(records) <= Limit(op) THEN records ELSE SubSeq(records, 1, Limit(op))

\* The signal (or news item, or message) built from record i.
Signal(op, i, kind) ==
    [source |-> op, record |-> i, text_ok |-> kind = "good"]

\* The loop over the records: the list built so far, and whether the loop
\* ended by throwing.
RECURSIVE Process(_, _, _, _)
Process(op, records, i, acc) ==
    IF i > Len(records) THEN [threw |-> FALSE, built |-> acc]
    ELSE IF records[i] = "bad" THEN [threw |-> TRUE, built |-> acc]
    ELSE IF records[i] = "skip" THEN Process(op, records, i + 1, acc)
    ELSE Process(op, records, i + 1, Append(acc, Signal(op, i, records[i])))

\* Mutant: every operation returns [] from its except clause.
CaughtEmpty(op, p) ==
    [raised |-> FALSE, out |-> IF p.threw THEN <<>> ELSE p.built]

\* try: ... except Exception: print a warning.  The harvesters then return
\* the list built so far; the two scanners return [].
Caught(op, p) ==
    [raised |-> FALSE,
     out |-> IF p.threw /\ op \notin KeepsPartial THEN <<>> ELSE p.built]

\* One fetch operation on one upstream response.
Harvest(op, resp) ==
    IF resp.kind # "ok" THEN [raised |-> FALSE, out |-> <<>>]
    ELSE Caught(op, Process(op, Sliced(op, resp.records), 1, <<>>))

NotCalled == [called |-> FALSE]

HarvIdle ==
    /\ hOp = "fedreg"
    /\ hResponse = [kind |-> "fetch_failed", records |-> <<>>]
    /\ hResult = NotCalled

HarvFrame ==
    UNCHANGED <<now, guardVars, pubVars, accVars, memVars, pipeVars,
                normVars, orchVars, pairVars, allVars, storeVars, typeVars,
                sigVars, foreVars, stageVars, webVars, lorVars, scanVars,
                spotVars, tvVars>>

\* The operation is called and returns.
Fetch ==
    /\ hResult = NotCalled
    /\ hResult' = Harvest(hOp, hResponse)
    /\ UNCHANGED <<hOp, hResponse>>
    /\ HarvFrame

HarvNext == Fetch

Returned == hResult # NotCalled

\* The records the loop reaches, and the first of them it throws on.
Reached == Sliced(hOp, hResponse.records)
BadAt == {i \in 1..Len(Reached) : Reached[i] = "bad"}
Malformed == hResponse.kind # "ok" \/ BadAt # {}

----------------------------------------------------------------------------
(* BlackSnow Accumulator: the belief blend in binary floating point.       *)
(* Python floats are IEEE-754 binary64: every operation returns the exact  *)
(* result rounded to the nearest value with 53 significant bits, ties to   *)
(* even.  The model keeps the format and the rounding rule and lowers the  *)
(* precision: a value is an integer count of 2^-ScaleBits with at most     *)
(* MantBits significant bits.                                              *)

\* Bounds: significant bits of a float, and the smallest step 2^-ScaleBits.
MantBits == 3
ScaleBits == 4

RECURSIVE Pow2(_)
Pow2(n) == IF n = 0 THEN 1 ELSE 2 * Pow2(n - 1)

RECURSIVE BitLen(_)
BitLen(n) == IF n = 0 THEN 0 ELSE 1 + BitLen(n \div 2)

Max(a, b) == IF a >= b THEN a ELSE b
Min(a, b) == IF a <= b THEN a ELSE b

\* 1.0
One == Pow2(ScaleBits)

\* Round to nearest, ties to even: n keeps its MantBits leading bits and is a
\* multiple of 2^minshift.
Round(n, minshift) ==
    LET sh == Max(BitLen(n) - MantBits, minshift)
        unit == Pow2(sh)
        q == n \div unit
        rem == n % unit
        up == 2 * rem > unit \/ (2 * rem = unit /\ q % 2 = 1)
    IN IF sh = 0 THEN n ELSE (IF up THEN q + 1 ELSE q) * unit

\* The floats of [0, 1].
Floats == {x \in 0..One : Round(x, 0) = x}

\* a - b, a * b, a + b as the float operations compute them.
FSub(a, b) == Round(a - b, 0)
FMul(a, b) == Round(a * b, ScaleBits) \div One
FAdd(a, b) == Round(a + b, 0)

\* The literal 0.99: the float nearest to 99/100.
Cap ==
    CHOOSE c \in Floats : \A d \in Floats :
        (IF 100 * c >= 99 * One THEN 100 * c - 99 * One ELSE 99 * One - 100 * c)
        <= (IF 100 * d >= 99 * One THEN 100 * d - 99 * One ELSE 99 * One - 100 * d)

\* Signal magnitudes and the risk vectors they are filed under.
Magnitudes == Floats
Vectors == {"infra.energy.grid", "labor.union"}

\* Mutant: the update forgets the prior.
PosteriorNoPrior(prior, likelihood) ==
    FMul(likelihood, FSub(One, prior))

\* posterior = prior + likelihood * (1 - prior)
Posterior(prior, likelihood) ==
    FAdd(prior, FMul(likelihood, FSub(One, prior)))

\* min(posterior, 0.99)
Blend(prior, likelihood) == Min(Posterior(prior, likelihood), Cap)

\* The blend tabulated over the floats, so that it is computed once per pair.
BlendTable == [prior \in Floats, likelihood \in Floats |-> Blend(prior, likelihood)]

AccIdle ==
    /\ belief_states = EmptyDict
    /\ accLast = NoOp

AccFrame ==
    UNCHANGED <<now, guardVars, pubVars, harvVars, memVars, pipeVars,
                normVars, orchVars, pairVars, allVars, storeVars, typeVars,
                sigVars, foreVars, stageVars, webVars, lorVars, scanVars,
                spotVars, tvVars>>

\* One signal of accumulate(signals): the body of the loop.
Accumulate(vector, magnitude) ==
    LET prior == Get(belief_states, vector, 0)
    IN /\ belief_states' = Put(belief_states, vector, BlendTable[prior, magnitude])
       /\ accLast' = [op |-> "accumulate", vector |-> vector,
                      prior |-> prior, magnitude |-> magnitude]
       /\ AccFrame

AccNext == \E v \in Vectors, m \in Magnitudes : Accumulate(v, m)

Accumulated == accLast.op = "accumulate"

\* C4 as stated: the result of the blend is non-decreasing in the prior and
\* in the magnitude, for priors in [0, 0.99] and magnitudes in [0, 1].
C4_Original ==
    Accumulated =>
        /\ \A p2 \in Floats :
              (accLast.prior <= p2 /\ p2 <= Cap) =>
                  belief_states[accLast.vector] <= BlendTable[p2, accLast.magnitude]
        /\ \A m2 \in Floats :
              accLast.magnitude <= m2 =>
                  belief_states[accLast.vector] <= BlendTable[accLast.prior, m2]

\* C4 amended: the result of the blend is non-decreasing in the magnitude,
\* never below the prior and never above 0.99, and every vector ever updated
\* keeps a belief; the blend computed exactly is non-decreasing in the prior.
C4_BlendMonotoneInMagnitude ==
    Accumulated =>
        /\ \A m2 \in Floats :
              accLast.magnitude <= m2 =>
                  belief_states[accLast.vector] <= BlendTable[accLast.prior, m2]
        /\ accLast.prior <= belief_states[accLast.vector]
        /\ belief_states[accLast.vector] <= Cap
        /\ \A p2 \in Floats :
              (accLast.prior <= p2 /\ p2 <= Cap) =>
                  accLast.prior * One + accLast.magnitude * (One - accLast.prior)
                  <= p2 * One + accLast.magnitude * (One - p2)

\* C4 witness: a positive prior is raised, short of the cap, by a magnitude
\* strictly between 0 and 1.
C4_Witness ==
    /\ Accumulated
    /\ 0 < accLast.prior
    /\ 0 < accLast.magnitude /\ accLast.magnitude < One
    /\ accLast.prior < belief_states[accLast.vector]
    /\ belief_states[accLast.vector] < Cap

----------------------------------------------------------------------------
(* BlackSnowMemory: the belief states kept in state.json.  One instance is  *)
(* alive at a time (every script runs to completion in a process of its    *)
(* own); a new instance loads what the previous one saved.                 *)

\* Bound: updates made for one vector.
MaxUpdates == 102

\* history[-100:]
HistoryCap == 100

NoMemory == [loaded |-> FALSE]

\* The belief passed for a vector in its k-th update: every update of every
\* vector carries a value of its own, so that a lost, repeated or misplaced
\* history entry shows.
Belief(v, k) == IF v = "labor.union" THEN 2 * k ELSE 2 * k - 1

\* json.dump(self.state, f) and json.load(f): strings, numbers, lists and
\* objects with string keys come back as written.
JsonDump(state) == [json |-> state]
JsonLoad(text) == text.json

\* Mutant: the oldest entries are kept.
KeepFirst(history) ==
    IF Len(history) <= HistoryCap THEN history
    ELSE SubSeq(history, 1, HistoryCap)

\* history[-100:]
KeepLast(history) ==
    IF Len(history) <= HistoryCap THEN history
    ELSE SubSeq(history, Len(history) - HistoryCap + 1, Len(history))

FreshState(t) ==
    [created_at |-> t, last_harvest |-> None, total_signals |-> 0,
     total_vectors |-> 0, belief_states |-> EmptyDict]

LoadState(t) ==
    IF stateFile = NoFile THEN FreshState(t) ELSE JsonLoad(stateFile)

\* The body of the loop of update_belief_states for one vector.
UpdatedVector(bs, vector, belief, t) ==
    LET entry == IF vector \in DOMAIN bs THEN bs[vector]
                 ELSE [history |-> <<>>, current |-> belief]
    IN [history |-> KeepLast(Append(entry.history,
                                    [timestamp |-> t, value |-> belief])),
        current |-> belief]

\* The loop over belief_states.items(): the vectors are updated independently.
UpdatedBeliefs(bs, b, t) ==
    [v \in (DOMAIN bs) \cup (DOMAIN b) |->
        IF v \in DOMAIN b THEN UpdatedVector(bs, v, b[v], t) ELSE bs[v]]

MemIdle ==
    /\ stateFile = NoFile
    /\ memory = NoMemory
    /\ made = [v \in Vectors |-> 0]
    /\ memLast = NoOp

MemFrame ==
    UNCHANGED <<now, guardVars, pubVars, harvVars, accVars, pipeVars,
                normVars, orchVars, pairVars, allVars, storeVars, typeVars,
                sigVars, foreVars, stageVars, webVars, lorVars, scanVars,
                spotVars, tvVars>>

\* BlackSnowMemory(): a new process loads the state.
NewMemory ==
    /\ memory' = LoadState(now)
    /\ memLast' = NoOp
    /\ UNCHANGED <<stateFile, made>>
    /\ MemFrame

\* update_belief_states(b), b giving the next belief of each vector in vs.
UpdateBeliefStates(vs) ==
    /\ memory # NoMemory
    /\ \A v \in vs : made[v] < MaxUpdates
    /\ LET b == [v \in vs |-> Belief(v, made[v] + 1)]
           new == [memory EXCEPT !.belief_states = UpdatedBeliefs(@, b, now)]
       IN /\ memory' = new
          /\ stateFile' = JsonDump(new)
          /\ made' = [v \in Vectors |-> IF v \in vs THEN made[v] + 1 ELSE made[v]]
          /\ memLast' = [op |-> "update_belief_states", b |-> b]
    /\ MemFrame

MemNext ==
    \/ NewMemory
    \/ \E vs \in SUBSET Vectors : UpdateBeliefStates(vs)

Persisted == JsonLoad(stateFile).belief_states

\* get_belief_history(vector), values only.
HistoryValues(bs, v) ==
    IF v \in DOMAIN bs
    THEN [i \in 1..Len(bs[v].history) |-> bs[v].history[i].value]
    ELSE <<>>

\* C7: after update_belief_states(b) the persisted state has, for every
\* vector v of b, current = b[v] and b[v] as the value of the last history
\* entry; and after any sequence of updates the history of every vector
\* holds, in call order, exactly the most recent min(n, 100) values of the n
\* updates made for it.
C7_BeliefHistory ==
    /\ memLast # NoOp =>
          \A v \in DOMAIN memLast.b :
              /\ v \in DOMAIN Persisted
              /\ Persisted[v].current = memLast.b[v]
              /\ Persisted[v].history[Len(Persisted[v].history)].value = memLast.b[v]
    /\ stateFile # NoFile =>
          \A v \in Vectors :
              LET n == made[v]
                  kept == Min(n, HistoryCap)
              IN /\ HistoryValues(Persisted, v) =
                        [i \in 1..kept |-> Belief(v, n - kept + i)]
                 /\ (memory # NoMemory => HistoryValues(memory.belief_states, v) =
                        HistoryValues(Persisted, v))

\* C7 witness: a vector updated more than 100 times has just been updated
\* again, and its history starts at the value of its 100th most recent update.
C7_Witness ==
    /\ memLast # NoOp
    /\ \E v \in DOMAIN memLast.b :
          /\ made[v] > HistoryCap
          /\ Len(Persisted[v].history) = HistoryCap
          /\ Persisted[v].history[1].value = Belief(v, made[v] - HistoryCap + 1)

----------------------------------------------------------------------------
(* BlackSnow run_full_pipeline(webhook_url): the stages of one run.        *)

WebhookUrls == {None, "", "https://hooks.example/blacksnow"}

\* if webhook_url:
Truthy(url) == url \notin {None, ""}

\* harvest_all_sources(): the live Federal Register feed (no answer here) and
\* the SAM.gov and NLRB mock harvesters, whose texts are string literals.
BasicSignals ==
    <<[source |-> "sam", record |-> 1, text_ok |-> TRUE],
      [source |-> "sam", record |-> 2, text_ok |-> TRUE],
      [source |-> "nlrb", record |-> 1, text_ok |-> TRUE]>>

\* EIAEnergyHarvester.harvest(): one signal with a literal text.
EiaSignals == <<[source |-> "eia", record |-> 1, text_ok |-> TRUE]>>

\* harvest_all_extended(): the harvesters in their declared order.
ExtendedSignals(resp) ==
    Harvest("fedreg", resp["fedreg"]).out
    \o Harvest("sec", resp["sec"]).out
    \o Harvest("usaspending", resp["usaspending"]).out
    \o Harvest("dot", resp["dot"]).out
    \o Harvest("fema", resp["fema"]).out
    \o EiaSignals

\* Normalizer.normalize calls _detect_ontology(sig.raw_text), which starts
\* with text.lower(): it throws on a raw_text that is not a string.
NormalizeThrows(raw) == \E i \in 1..Len(raw) : ~raw[i].text_ok

NoResults == [returned |-> FALSE]

PipeIdle ==
    /\ pPc = "harvest"
    /\ pUrl = None
    /\ pRaw = <<>>
    /\ pStages = <<>>
    /\ pResults = NoResults

PipeFrame ==
    UNCHANGED <<now, guardVars, pubVars, harvVars, accVars, memVars,
                normVars, orchVars, pairVars, allVars, storeVars, typeVars,
                sigVars, foreVars, stageVars, webVars, lorVars, scanVars,
                spotVars, tvVars>>

\* A stage that cannot fail is performed and the run moves on.
Performed(name, next) ==
    /\ pStages' = Append(pStages, name)
    /\ pPc' = next
    /\ UNCHANGED <<pUrl, pRaw, pResults>>
    /\ PipeFrame

\* raw_signals = harvest_all_sources() + harvest_all_extended(); one live
\* source answers, the others cannot be reached.
PHarvest(op, r) ==
    /\ pPc = "harvest"
    /\ LET resp == [o \in KeepsPartial |->
                      IF o = op THEN r ELSE [kind |-> "fetch_failed", records |-> <<>>]]
       IN pRaw' = BasicSignals \o ExtendedSignals(resp)
    /\ pStages' = Append(pStages, "harvest")
    /\ pPc' = "store_signals"
    /\ UNCHANGED <<pUrl, pResults>>
    /\ PipeFrame

PStoreSignals ==
    /\ pPc = "store_signals"
    /\ Performed("store_signals", "normalize")

\* normalizer.normalize(normalized_input): an exception leaves run_full_pipeline.
PNormalize ==
    /\ pPc = "normalize"
    /\ IF NormalizeThrows(pRaw)
       THEN /\ pPc' = "raised"
            /\ UNCHANGED pStages
       ELSE /\ pPc' = "accumulate"
            /\ pStages' = Append(pStages, "normalize")
    /\ UNCHANGED <<pUrl, pRaw, pResults>>
    /\ PipeFrame

PAccumulate ==
    /\ pPc = "accumulate"
    /\ Performed("accumulate", "update_belief_states")
PUpdateBeliefStates ==
    /\ pPc = "update_belief_states"
    /\ Performed("update_belief_states", "forecast")
PForecast ==
    /\ pPc = "forecast"
    /\ Performed("forecast", "package")
PPackage ==
    /\ pPc = "package"
    /\ Performed("package", "store_vectors")
PStoreVectors ==
    /\ pPc = "store_vectors"
    /\ Performed("store_vectors", "webhook")

\* if webhook_url: results["webhook"] = delivery.deliver(primitives); deliver
\* returns a record whether the POST succeeded or not.
PWebhook(delivered) ==
    /\ pPc = "webhook"
    /\ Truthy(pUrl)
    /\ pStages' = Append(pStages, "webhook")
    /\ pResults' = [returned |-> FALSE, webhook |-> [success |-> delivered]]
    /\ pPc' = "return"
    /\ UNCHANGED <<pUrl, pRaw>>
    /\ PipeFrame

\* else: skipped, results["webhook"] stays None.
PSkipWebhook ==
    /\ pPc = "webhook"
    /\ ~Truthy(pUrl)
    /\ pResults' = [returned |-> FALSE, webhook |-> None]
    /\ pPc' = "return"
    /\ UNCHANGED <<pUrl, pRaw, pStages>>
    /\ PipeFrame

\* return results
PReturn ==
    /\ pPc = "return"
    /\ pResults' = [pResults EXCEPT !.returned = TRUE]
    /\ pPc' = "returned"
    /\ UNCHANGED <<pUrl, pRaw, pStages>>
    /\ PipeFrame

PipeNext ==
    \/ \E op \in KeepsPartial : \E r \in Responses(op) : PHarvest(op, r)
    \/ PStoreSignals
    \/ PNormalize
    \/ PAccumulate
    \/ PUpdateBeliefStates
    \/ PForecast
    \/ PPackage
    \/ PStoreVectors
    \/ \E delivered \in BOOLEAN : PWebhook(delivered)
    \/ PSkipWebhook
    \/ PReturn

\* The run is over: it returned or an exception left it.
PipeOver == pPc \in {"returned", "raised"}

StagesInOrder ==
    <<"harvest", "store_signals", "normalize", "accumulate",
      "update_belief_states", "forecast", "package", "store_vectors">>

\* C8: a run that is over has returned the results record, after performing
\* each stage once in the fixed order, with the webhook stage last exactly
\* when a webhook URL was given.
C8_RunReturnsAfterAllStages ==
    PipeOver =>
        /\ pPc = "returned"
        /\ pResults.returned
        /\ pStages = IF Truthy(pUrl) THEN Append(StagesInOrder, "webhook")
                     ELSE StagesInOrder

----------------------------------------------------------------------------
(* BlackSnow Normalizer._detect_ontology: keyword classification.  Texts    *)
(* and keywords are sequences of characters, so that `kw in text_lower` is *)
(* the substring test it is in the program.                                *)

\* Bound: words in a text.
MaxWords == 2

ONTOLOGY == <<
    [path |-> "infra.energy.grid",
     keywords |-> <<
         <<"g", "r", "i", "d">>,
         <<"p", "o", "w", "e", "r">>,
         <<"e", "l", "e", "c", "t", "r", "i", "c", "i", "t", "y">>,
         <<"o", "u", "t", "a", "g", "e">>,
         <<"t", "r", "a", "n", "s", "m", "i", "s", "s", "i", "o", "n">>,
         <<"u", "t", "i", "l", "i", "t", "y">>,
         <<"b", "l", "a", "c", "k", "o", "u", "t">>>>],
    [path |-> "infra.energy.oil",
     keywords |-> <<
         <<"o", "i", "l">>,
         <<"p", "e", "t", "r", "o", "l", "e", "u", "m">>,
         <<"c", "r", "u", "d", "e">>,
         <<"r", "e", "f", "i", "n", "e", "r", "y">>,
         <<"p", "i", "p", "e", "l", "i", "n", "e">>,
         <<"f", "u", "e", "l">>,
         <<"g", "a", "s">>>>],
    [path |-> "infra.transport.rail",
     keywords |-> <<
         <<"r", "a", "i", "l">>,
         <<"r", "a", "i", "l", "w", "a", "y">>,
         <<"t", "r", "a", "i", "n">>,
         <<"f", "r", "e", "i", "g", "h", "t">>,
         <<"l", "o", "c", "o", "m", "o", "t", "i", "v", "e">>,
         <<"a", "m", "t", "r", "a", "k">>>>],
    [path |-> "infra.transport.port",
     keywords |-> <<
         <<"p", "o", "r", "t">>,
         <<"s", "h", "i", "p", "p", "i", "n", "g">>,
         <<"c", "o", "n", "t", "a", "i", "n", "e", "r">>,
         <<"m", "a", "r", "i", "t", "i", "m", "e">>,
         <<"d", "o", "c", "k">>,
         <<"c", "a", "r", "g", "o">>,
         <<"v", "e", "s", "s", "e", "l">>>>],
    [path |-> "infra.transport.aviation",
     keywords |-> <<
         <<"a", "i", "r", "p", "o", "r", "t">>,
         <<"a", "v", "i", "a", "t", "i", "o", "n">>,
         <<"f", "l", "i", "g", "h", "t">>,
         <<"a", "i", "r", "l", "i", "n", "e">>,
         <<"f", "a", "a">>,
         <<"a", "i", "r", "c", "r", "a", "f", "t">>>>],
    [path |-> "infra.transport.road",
     keywords |-> <<
         <<"h", "i", "g", "h", "w", "a", "y">>,
         <<"b", "r", "i", "d", "g", "e">>,
         <<"r", "o", "a", "d">>,
         <<"t", "r", "a", "f", "f", "i", "c">>,
         <<"t", "r", "u", "c", "k", "i", "n", "g">>,
         <<"d", "o", "t">>>>],
    [path |-> "labor.union",
     keywords |-> <<
         <<"u", "n", "i", "o", "n">>,
         <<"s", "t", "r", "i", "k", "e">>,
         <<"g", "r", "i", "e", "v", "a", "n", "c", "e">>,
         <<"c", "o", "l", "l", "e", "c", "t", "i", "v", "e">>,
         <<"b", "a", "r", "g", "a", "i", "n", "i", "n", "g">>,
         <<"n", "l", "r", "b">>,
         <<"w", "o", "r", "k", "e", "r", "s">>>>],
    [path |-> "labor.attrition",
     keywords |-> <<
         <<"r", "e", "s", "i", "g", "n", "a", "t", "i", "o", "n">>,
         <<"a", "t", "t", "r", "i", "t", "i", "o", "n">>,
         <<"t", "u", "r", "n", "o", "v", "e", "r">>,
         <<"l", "a", "y", "o", "f", "f">>,
         <<"d", "e", "p", "a", "r", "t", "u", "r", "e">>,
         <<"f", "i", "r", "e", "d">>,
         <<"q", "u", "i", "t">>>>],
    [path |-> "legal.regulation",
     keywords |-> <<
         <<"r", "e", "g", "u", "l", "a", "t", "i", "o", "n">>,
         <<"c", "o", "m", "p", "l", "i", "a", "n", "c", "e">>,
         <<"d", "r", "a", "f", "t">>,
         <<"c", "o", "n", "s", "u", "l", "t", "a", "t", "i", "o", "n">>,
         <<"a", "m", "e", "n", "d", "m", "e", "n", "t">>,
         <<"r", "u", "l", "e">>,
         <<"p", "o", "l", "i", "c", "y">>>>],
    [path |-> "supply.procurement",
     keywords |-> <<
         <<"t", "e", "n", "d", "e", "r">>,
         <<"p", "r", "o", "c", "u", "r", "e", "m", "e", "n", "t">>,
         <<"c", "o", "n", "t", "r", "a", "c", "t">>,
         <<"b", "i", "d">>,
         <<"r", "f", "p">>,
         <<"a", "w", "a", "r", "d">>,
         <<"s", "o", "l", "i", "c", "i", "t", "a", "t", "i", "o", "n">>>>],
    [path |-> "supply.inventory",
     keywords |-> <<
         <<"i", "n", "v", "e", "n", "t", "o", "r", "y">>,
         <<"s", "t", "o", "c", "k", "p", "i", "l", "e">>,
         <<"s", "h", "o", "r", "t", "a", "g", "e">>,
         <<"b", "u", "f", "f", "e", "r">>,
         <<"w", "a", "r", "e", "h", "o", "u", "s", "e">>,
         <<"s", "u", "p", "p", "l", "y", " ", "c", "h", "a", "i", "n">>>>],
    [path |-> "emergency.disaster",
     keywords |-> <<
         <<"d", "i", "s", "a", "s", "t", "e", "r">>,
         <<"e", "m", "e", "r", "g", "e", "n", "c", "y">>,
         <<"s", "t", "o", "r", "m">>,
         <<"h", "u", "r", "r", "i", "c", "a", "n", "e">>,
         <<"t", "o", "r", "n", "a", "d", "o">>,
         <<"f", "l", "o", "o", "d">>,
         <<"f", "i", "r", "e">>,
         <<"w", "i", "l", "d", "f", "i", "r", "e">>,
         <<"e", "a", "r", "t", "h", "q", "u", "a", "k", "e">>,
         <<"t", "s", "u", "n", "a", "m", "i">>,
         <<"f", "e", "m", "a">>,
         <<"e", "v", "a", "c", "u", "a", "t", "i", "o", "n">>,
         <<"s", "h", "e", "l", "t", "e", "r">>>>],
    [path |-> "emergency.weather",
     keywords |-> <<
         <<"w", "i", "n", "t", "e", "r", " ", "s", "t", "o", "r", "m">>,
         <<"b", "l", "i", "z", "z", "a", "r", "d">>,
         <<"i", "c", "e", " ", "s", "t", "o", "r", "m">>,
         <<"s", "e", "v", "e", "r", "e", " ", "w", "e", "a", "t", "h", "e", "r">>,
         <<"h", "e", "a", "t", " ", "w", "a", "v", "e">>,
         <<"d", "r", "o", "u", "g", "h", "t">>,
         <<"s", "n", "o", "w">>,
         <<"f", "r", "e", "e", "z", "e">>>>],
    [path |-> "emergency.public_health",
     keywords |-> <<
         <<"p", "a", "n", "d", "e", "m", "i", "c">>,
         <<"o", "u", "t", "b", "r", "e", "a", "k">>,
         <<"e", "p", "i", "d", "e", "m", "i", "c">>,
         <<"q", "u", "a", "r", "a", "n", "t", "i", "n", "e">>,
         <<"p", "u", "b", "l", "i", "c", " ", "h", "e", "a", "l", "t", "h">>,
         <<"c", "d", "c">>,
         <<"c", "o", "n", "t", "a", "m", "i", "n", "a", "t", "i", "o", "n">>>>],
    [path |-> "finance.credit",
     keywords |-> <<
         <<"c", "r", "e", "d", "i", "t">>,
         <<"d", "e", "f", "a", "u", "l", "t">>,
         <<"b", "a", "n", "k", "r", "u", "p", "t", "c", "y">>,
         <<"d", "e", "b", "t">>,
         <<"l", "o", "a", "n">>,
         <<"m", "o", "r", "t", "g", "a", "g", "e">>,
         <<"f", "o", "r", "e", "c", "l", "o", "s", "u", "r", "e">>>>],
    [path |-> "finance.market",
     keywords |-> <<
         <<"m", "a", "r", "k", "e", "t">>,
         <<"s", "t", "o", "c", "k">>,
         <<"t", "r", "a", "d", "i", "n", "g">>,
         <<"v", "o", "l", "a", "t", "i", "l", "i", "t", "y">>,
         <<"c", "r", "a", "s", "h">>,
         <<"r", "e", "c", "e", "s", "s", "i", "o", "n">>,
         <<"i", "n", "f", "l", "a", "t", "i", "o", "n">>>>]>>

\* str.lower() on the letters the texts use.
UpperCase == <<"A", "B", "C", "D", "E", "F", "G", "H", "I", "J", "K", "L", "M", "N", "O", "P", "Q", "R", "S", "T", "U", "V", "W", "X", "Y", "Z">>
LowerCase == <<"a", "b", "c", "d", "e", "f", "g", "h", "i", "j", "k", "l", "m", "n", "o", "p", "q", "r", "s", "t", "u", "v", "w", "x", "y", "z">>

Lower(c) ==
    IF \E i \in 1..Len(UpperCase) : UpperCase[i] = c
    THEN LowerCase[CHOOSE i \in 1..Len(UpperCase) : UpperCase[i] = c]
    ELSE c

LowerText(text) == [i \in 1..Len(text) |-> Lower(text[i])]

\* kw in text_lower
Contains(kw, text) ==
    \E s \in 0..(Len(text) - Len(kw)) :
        \A k \in 1..Len(kw) : text[s + k] = kw[k]

\* sum(1 for kw in keywords if kw in text_lower)
Score(keywords, text_lower) ==
    Cardinality({k \in 1..Len(keywords) : Contains(keywords[k], text_lower)})

Scores(text_lower) ==
    [i \in 1..Len(ONTOLOGY) |-> Score(ONTOLOGY[i].keywords, text_lower)]

\* Mutant: a later path with the same score replaces the earlier one.
BeatsOrTies(score, best) == score >= best

\* max() keeps the first key it met unless a later one is strictly larger.
Beats(score, best) == score > best

\* max(scores, key=scores.get) over the paths with a positive score, in the
\* order they were inserted, that of ONTOLOGY; 0 when scores is empty.
RECURSIVE MaxKey(_, _, _)
MaxKey(scores, i, best) ==
    IF i > Len(scores) THEN best
    ELSE IF scores[i] > 0 /\ (best = 0 \/ Beats(scores[i], scores[best]))
         THEN MaxKey(scores, i + 1, i)
         ELSE MaxKey(scores, i + 1, best)

DetectOntology(text) ==
    LET best == MaxKey(Scores(LowerText(text)), 1, 0)
    IN IF best = 0 THEN "unknown" ELSE ONTOLOGY[best].path

\* The words the texts are made of.
Words == {
    <<"A", "i", "r", "p", "o", "r", "t">>,
    <<"g", "r", "i", "d">>,
    <<"P", "O", "W", "E", "R">>,
    <<"w", "i", "n", "t", "e", "r">>,
    <<"s", "t", "o", "r", "m">>,
    <<"W", "i", "l", "d", "f", "i", "r", "e">>,
    <<"u", "n", "i", "o", "n">>,
    <<"t", "h", "e">>}

RECURSIVE JoinWords(_)
JoinWords(ws) ==
    IF ws = <<>> THEN <<>>
    ELSE IF Len(ws) = 1 THEN ws[1]
    ELSE ws[1] \o <<" ">> \o JoinWords(Tail(ws))

OntologyTexts ==
    {JoinWords(ws) : ws \in UNION {[1..n -> Words] : n \in 0..MaxWords}}

NormIdle ==
    /\ nText = <<>>
    /\ nResult = NotCalled

NormFrame ==
    UNCHANGED <<now, guardVars, pubVars, harvVars, accVars, memVars,
                pipeVars, orchVars, pairVars, allVars, storeVars, typeVars,
                sigVars, foreVars, stageVars, webVars, lorVars, scanVars,
                spotVars, tvVars>>

\* _detect_ontology(text)
Classify ==
    /\ nResult = NotCalled
    /\ nResult' = [called |-> TRUE, path |-> DetectOntology(nText)]
    /\ UNCHANGED nText
    /\ NormFrame

NormNext == Classify

Classified == nResult # NotCalled

\* The number of keywords of path i occurring in the lower-cased text, and
\* the paths with at least one.
Occurring(i) ==
    Cardinality({k \in 1..Len(ONTOLOGY[i].keywords) :
                    Contains(ONTOLOGY[i].keywords[k], LowerText(nText))})
Hit == {i \in 1..Len(ONTOLOGY) : Occurring(i) > 0}

\* C9: _detect_ontology returns "unknown" exactly when no keyword of any path
\* occurs in the lower-cased text; otherwise it returns the path with the
\* largest number of occurring keywords, the first declared in ONTOLOGY among
\* those that tie; so a text with keywords of one path only gets that path.
C9_FirstLargestPath ==
    Classified =>
        /\ (nResult.path = "unknown") <=> (Hit = {})
        /\ Hit # {} =>
              \E i \in Hit :
                  /\ nResult.path = ONTOLOGY[i].path
                  /\ \A j \in Hit :
                        /\ Occurring(j) <= Occurring(i)
                        /\ (j < i => Occurring(j) < Occurring(i))
        /\ \A i \in Hit : Hit = {i} => nResult.path = ONTOLOGY[i].path

\* C9 witness: two paths tie for the largest count and the earlier one is
\* returned.
C9_Witness ==
    /\ Classified
    /\ \E i \in Hit, j \in Hit :
          /\ i < j
          /\ Occurring(i) = Occurring(j)
          /\ \A k \in Hit : Occurring(k) <= Occurring(i)
          /\ nResult.path = ONTOLOGY[i].path

----------------------------------------------------------------------------
(* Media orchestrator: main(request_type, query, output_format, resolution, *)
(* chat_target, media_type) and message_user.                              *)

\* How a subprocess.run(..., check=True) can end: exit status 0, a non-zero
\* exit status (CalledProcessError), or the program cannot be started
\* (FileNotFoundError, an OSError).
ProcOutcomes == {"ok", "nonzero", "spawn_fail"}

RequestTypes == {
    <<"a", "u", "d", "i", "o">>,
    <<"v", "i", "d", "e", "o">>,
    <<"S", "p", "o", "t", "i", "f", "y">>}
Queries == {
    <<"s", "o", "n", "g">>,
    <<"s", "p", "o", "t", "i", "f", "y", " ", "m", "i", "x">>}
MediaTypes == {"audio", "video", "spotify", None}
OutputFormats == {"mp3", "mp4", "webm", None}
Resolutions == {"480p", None}
ChatTargets == {
    <<"+", "9", "1", "6", "0">>,
    <<"5", "7", "8", "0">>}

Requests ==
    [request_type : RequestTypes, query : Queries, output_format : OutputFormats,
     resolution : Resolutions, chat_target : ChatTargets, media_type : MediaTypes]

\* "spotify" in request_type.lower() or "spotify" in query.lower()
IsSpotify(req) ==
    \/ Contains(<<"s", "p", "o", "t", "i", "f", "y">>, LowerText(req.request_type))
    \/ Contains(<<"s", "p", "o", "t", "i", "f", "y">>, LowerText(req.query))

\* chat_target.startswith("+")
IsWhatsapp(target) == Len(target) >= 1 /\ target[1] = "+"

\* The file name and the yt-dlp format chosen, or Unsupported.
Unsupported == [supported |-> FALSE]
Selection(req, has_ffmpeg) ==
    IF req.media_type = "audio" \/ req.output_format = "mp3"
    THEN IF has_ffmpeg
         THEN [supported |-> TRUE, suffix |-> "_Audio.mp3", format |-> "-x --audio-format mp3"]
         ELSE [supported |-> TRUE, suffix |-> "_Audio.m4a", format |-> "-f 140"]
    ELSE IF req.media_type = "video" /\ req.output_format = "mp4"
    THEN IF has_ffmpeg
         THEN IF req.resolution # None
              THEN [supported |-> TRUE, suffix |-> "_Video.mp4", format |-> "-f bestvideo[height<=N]"]
              ELSE [supported |-> TRUE, suffix |-> "_Video.mp4", format |-> "-f bestvideo"]
         ELSE [supported |-> TRUE, suffix |-> "_Video.mp4", format |-> "-f 18/22"]
    ELSE Unsupported

\* message_user(target, text, is_whatsapp, file_path): the command issued.
\* A send that fails is logged and swallowed.
Message(target, text, file_path, send) ==
    [channel |-> IF IsWhatsapp(target) THEN "whatsapp" ELSE "telegram",
     target |-> target,
     kind |-> IF file_path # None THEN "file" ELSE "text",
     content |-> IF file_path # None THEN file_path ELSE text,
     delivered |-> send = "ok"]

NoRun == [has_ffmpeg |-> FALSE, spotify |-> "not_run", yt_dlp |-> "not_run",
          exists |-> FALSE]

OrchIdle ==
    /\ oPc = "which"
    /\ oRequest = [request_type |-> <<"a", "u", "d", "i", "o">>, query |-> <<"s", "o", "n", "g">>,
                   output_format |-> None, resolution |-> None,
                   chat_target |-> <<"5", "7", "8", "0">>, media_type |-> None]
    /\ oRun = NoRun
    /\ oMessages = <<>>

OrchFrame ==
    UNCHANGED <<now, guardVars, pubVars, harvVars, accVars, memVars,
                pipeVars, normVars, pairVars, allVars, storeVars, typeVars,
                sigVars, foreVars, stageVars, webVars, lorVars, scanVars,
                spotVars, tvVars>>

\* has_ffmpeg = subprocess.run(["which", "ffmpeg"], capture_output=True).returncode == 0
\* The call is outside every try block.
Which(outcome) ==
    /\ oPc = "which"
    /\ IF outcome = "spawn_fail"
       THEN /\ oPc' = "raised"
            /\ UNCHANGED oRun
       ELSE /\ oRun' = [oRun EXCEPT !.has_ffmpeg = (outcome = "ok")]
            /\ oPc' = IF IsSpotify(oRequest) THEN "spotify" ELSE "select"
    /\ UNCHANGED <<oRequest, oMessages>>
    /\ OrchFrame

\* The Spotify branch: the skill is run, and an apology is sent if it fails.
Spotify(outcome, send) ==
    /\ oPc = "spotify"
    /\ oRun' = [oRun EXCEPT !.spotify = outcome]
    /\ oMessages' =
          IF outcome = "ok" THEN oMessages
          ELSE IF outcome = "nonzero"
          THEN Append(oMessages, Message(oRequest.chat_target,
                                         "Could not fulfill Spotify request.", None, send))
          ELSE Append(oMessages, Message(oRequest.chat_target,
                                         "An unexpected error occurred with Spotify.", None, send))
    /\ oPc' = "returned"
    /\ UNCHANGED oRequest
    /\ OrchFrame

\* The format is chosen; an unsupported request is answered and main returns.
Select(send) ==
    /\ oPc = "select"
    /\ LET sel == Selection(oRequest, oRun.has_ffmpeg)
       IN IF sel = Unsupported
          THEN /\ oMessages' = Append(oMessages, Message(oRequest.chat_target,
                                   "Unsupported media type or format requested", None, send))
               /\ oPc' = "returned"
          ELSE /\ oMessages' = oMessages
               /\ oPc' = "download"
    /\ UNCHANGED <<oRequest, oRun>>
    /\ OrchFrame

\* yt-dlp is run; the file is sent if it exists, an apology otherwise.
Download(outcome, exists, send) ==
    /\ oPc = "download"
    /\ oRun' = [oRun EXCEPT !.yt_dlp = outcome, !.exists = (outcome = "ok" /\ exists)]
    /\ LET sel == Selection(oRequest, oRun.has_ffmpeg)
           path == <<oRequest.query, sel.suffix>>
       IN oMessages' =
             IF outcome = "ok" /\ exists
             THEN Append(oMessages, Message(oRequest.chat_target, None, path, send))
             ELSE IF outcome = "ok"
             THEN Append(oMessages, Message(oRequest.chat_target,
                             "Download completed, but file not found to send.", None, send))
             ELSE IF outcome = "nonzero"
             THEN Append(oMessages, Message(oRequest.chat_target,
                             "Could not download the requested media.", None, send))
             ELSE Append(oMessages, Message(oRequest.chat_target,
                             "An unexpected error occurred.", None, send))
    /\ oPc' = "returned"
    /\ UNCHANGED oRequest
    /\ OrchFrame

OrchNext ==
    \/ \E outcome \in ProcOutcomes : Which(outcome)
    \/ \E outcome \in ProcOutcomes, send \in ProcOutcomes : Spotify(outcome, send)
    \/ \E send \in ProcOutcomes : Select(send)
    \/ \E outcome \in ProcOutcomes, exists \in BOOLEAN, send \in ProcOutcomes :
          Download(outcome, exists, send)

OrchOver == oPc \in {"returned", "raised"}

Apologies ==
    {"Could not fulfill Spotify request.",
     "An unexpected error occurred with Spotify.",
     "Unsupported media type or format requested",
     "Download completed, but file not found to send.",
     "Could not download the requested media.",
     "An unexpected error occurred."}

\* C10: main, once over, has raised nothing, and either the Spotify skill ran
\* successfully and no message was issued, or exactly one message was issued
\* to the chat target: the downloaded file exactly when yt-dlp exited
\* successfully and the file exists, an apology text otherwise.
C10_OneOutcomeNoRaise ==
    OrchOver =>
        /\ oPc = "returned"
        /\ \/ oRun.spotify = "ok" /\ oMessages = <<>>
           \/ /\ oRun.spotify # "ok"
              /\ Len(oMessages) = 1
              /\ oMessages[1].target = oRequest.chat_target
              /\ IF oRun.yt_dlp = "ok" /\ oRun.exists
                 THEN oMessages[1].kind = "file"
                 ELSE oMessages[1].kind = "text" /\ oMessages[1].content \in Apologies

----------------------------------------------------------------------------
(* The compliance guard with two target keys: the platform alone and the   *)
(* platform with a channel.                                                *)

KeyTargets == {None, "chanA"}
KeyTexts == {"hello"}

KeysNext ==
    \/ \E g \in GuardSlots : NewGuard(g)
    \/ \E g \in GuardSlots, pl \in Platforms, tx \in KeyTexts, tg \in KeyTargets :
          Check(g, pl, tx, tg)
    \/ \E g \in GuardSlots, pl \in Platforms, tx \in KeyTexts, tg \in KeyTargets :
          LogPost(g, pl, tx, tg)
    \/ \E d \in TickSteps : Tick(d)

AllKeys == {TargetKey(pl, tg) : pl \in Platforms, tg \in KeyTargets}

\* The ledger of the live instance with the given id.
LedgerOf(id) == guard[CHOOSE g \in GuardSlots : guard[g].id = id].ledger

\* C15: bookkeeping is per target key.  A log_post for one key leaves, in the
\* logging instance's ledger, the hash list and the last-post time of every
\* other key as they were, and with them the result of that instance's check
\* for every other key and text; and a check for a key the instance's ledger
\* has no post for returns True.
C15_PerKey ==
    [][/\ Len(posts') = Len(posts) + 1 =>
              LET p == posts'[Len(posts')]
              IN \A g \in {h \in GuardSlots : guard[h] # NoGuard} :
                    guard[g].id = p.id =>
                       \A k \in AllKeys \ {p.key} :
                          /\ Get(guard'[g].ledger.hashes, k, <<>>)
                                = Get(guard[g].ledger.hashes, k, <<>>)
                          /\ Get(guard'[g].ledger.last_posts, k, 0)
                                = Get(guard[g].ledger.last_posts, k, 0)
                          /\ \A tx \in KeyTexts :
                                CheckResult(guard'[g].ledger, k, tx, now)
                                   = CheckResult(guard[g].ledger, k, tx, now)
       /\ (lastOp'.op = "check"
           /\ lastOp'.key \notin DOMAIN LedgerOf(lastOp'.id).last_posts
           /\ lastOp'.key \notin DOMAIN LedgerOf(lastOp'.id).hashes)
              => lastOp'.result]_vars

\* C15 witness: an instance whose ledger holds a post for each of the two keys
\* has just logged one of them.
C15_Witness ==
    /\ lastOp.op = "log_post"
    /\ \A k \in AllKeys : k \in DOMAIN guard[Actor].ledger.last_posts
    /\ Cardinality(AllKeys) = 2

----------------------------------------------------------------------------
(* Two callers of the compliance guard on one workspace.  Each creates its *)
(* own ComplianceGuard, calls check and then log_post for the same key;    *)
(* their steps interleave freely.                                          *)

PairKey == TargetKey("twitter", None)

NotStarted == [pc |-> "none"]

PairIdle == pair = [g \in GuardSlots |-> NotStarted]

\* What the two callers leave alone: everything but the guard's state.
PairFrame ==
    UNCHANGED <<pubVars, harvVars, accVars, memVars, pipeVars, normVars,
                orchVars, allVars, storeVars, typeVars, sigVars, foreVars,
                stageVars, webVars, lorVars, scanVars, spotVars, tvVars>>

\* guard = ComplianceGuard(workspace)
PairNew(g) ==
    /\ pair[g].pc = "none"
    /\ \A h \in GuardSlots : h < g => guard[h] # NoGuard
    /\ instCount' = instCount + 1
    /\ guard' = [guard EXCEPT ![g] =
                    [id |-> instCount + 1,
                     ledger |-> LoadLedger,
                     seen |-> {p \in PostSet : ledgerFile # NoFile /\ Holds(ledgerFile, p)}]]
    /\ pair' = [pair EXCEPT ![g] = [pc |-> "new"]]
    /\ lastOp' = NoOp
    /\ UNCHANGED <<now, ledgerFile, posts>>
    /\ PairFrame

\* guard.check(platform, text)
PairCheck(g, text) ==
    /\ pair[g].pc = "new"
    /\ LET result == CheckResult(guard[g].ledger, PairKey, text, now)
       IN /\ lastOp' = [op |-> "check", id |-> guard[g].id, key |-> PairKey,
                        text |-> text, result |-> result]
          /\ pair' = [pair EXCEPT ![g] = [pc |-> "checked", text |-> text,
                                          result |-> result, at |-> now]]
    /\ UNCHANGED <<now, ledgerFile, guard, instCount, posts>>
    /\ PairFrame

\* guard.log_post(platform, text)
PairLogPost(g) ==
    /\ pair[g].pc = "checked"
    /\ LET new == LoggedLedger(guard[g].ledger, PairKey, pair[g].text, now)
           p == [id |-> guard[g].id, key |-> PairKey, text |-> pair[g].text,
                 time |-> now, born |-> instCount]
       IN /\ guard' = [guard EXCEPT ![g].ledger = new,
                                    ![g].seen = @ \cup {p}]
          /\ ledgerFile' = new
          /\ posts' = Append(posts, p)
          /\ lastOp' = [op |-> "log_post", id |-> guard[g].id]
    /\ pair' = [pair EXCEPT ![g].pc = "done"]
    /\ UNCHANGED <<now, instCount>>
    /\ PairFrame

\* Time passes between any two steps.
PairTick(d) ==
    /\ now + d <= StartTime + MaxElapsed
    /\ now' = now + d
    /\ lastOp' = NoOp
    /\ UNCHANGED <<ledgerFile, guard, instCount, posts, pair>>
    /\ PairFrame

PairNext ==
    \/ \E g \in GuardSlots : PairNew(g)
    \/ \E g \in GuardSlots, tx \in Texts : PairCheck(g, tx)
    \/ \E g \in GuardSlots : PairLogPost(g)
    \/ \E d \in TickSteps : PairTick(d)

Approved(g) == pair[g].pc \in {"checked", "done"} /\ pair[g].result

BothApproved == \A g \in GuardSlots : Approved(g)

\* One caller created its guard after the other caller's log_post returned.
OneAfterTheOther ==
    \E g, h \in GuardSlots :
        /\ g # h
        /\ pair[g].pc = "done"
        /\ pair[h].pc # "none"
        /\ \E i \in 1..Len(posts) :
              posts[i].id = guard[g].id /\ posts[i].born < guard[h].id

FarApart ==
    \A g, h \in GuardSlots :
        g # h => \/ pair[g].at - pair[h].at >= Cooldown
                 \/ pair[h].at - pair[g].at >= Cooldown

\* C13 as stated: in every interleaving of the two callers, two approved
\* checks are at least 120 seconds apart and are for different texts.
C13_Original ==
    BothApproved => (FarApart /\ pair[1].text # pair[2].text)

\* C13, amended: when one caller creates its guard after the other's
\* log_post has returned, two approved checks are at least 120 seconds apart
\* and are for different texts.
C13_OneAfterTheOther ==
    (BothApproved /\ OneAfterTheOther) => (FarApart /\ pair[1].text # pair[2].text)

\* C13 witness: both callers were approved, one after the other.
C13_Witness == BothApproved /\ OneAfterTheOther /\ \A g \in GuardSlots : pair[g].pc = "done"

----------------------------------------------------------------------------
(* harvest_all_extended(): the loop over the six extended harvesters.      *)

\* Bound: records in one upstream response of the aggregate run.
MaxAllRecords == 2

\* harvesters = [("Federal Register", ...), ..., ("EIA Energy", ...)]
Harvesters == <<"fedreg", "sec", "usaspending", "dot", "fema", "eia">>

\* What a harvester's upstream can answer; the EIA harvester fetches nothing.
AllResponses(op) ==
    IF op = "eia" THEN {[kind |-> "ok", records |-> <<>>]}
    ELSE {r \in Responses(op) : Len(r.records) <= MaxAllRecords}

\* harvester.harvest()
HarvestOf(op, resp) ==
    IF op = "eia" THEN [raised |-> FALSE, out |-> EiaSignals]
    ELSE Harvest(op, resp)

\* try: all_signals.extend(harvester.harvest())  except Exception: print
Extended(all, result) == IF result.raised THEN all ELSE all \o result.out

\* Mutant: the loop ends at the first harvester that brings nothing.
AfterHarvesterStops(i, result) ==
    IF result.raised \/ result.out = <<>> THEN Len(Harvesters) + 1 ELSE i + 1

\* for name, harvester in harvesters: the loop moves to the next harvester
\* whatever the current one did.
AfterHarvester(i, result) == i + 1

AllIdle ==
    /\ xIndex = 1
    /\ xInvoked = <<>>
    /\ xReturned = <<>>
    /\ all_signals = <<>>
    /\ xResult = NotCalled

AllFrame ==
    UNCHANGED <<now, guardVars, pubVars, harvVars, accVars, memVars,
                pipeVars, normVars, orchVars, pairVars, storeVars,
                typeVars, sigVars, foreVars, stageVars, webVars, lorVars,
                scanVars, spotVars, tvVars>>

\* One turn of the loop, on whatever the harvester's upstream answers.
HarvestOne ==
    /\ xResult = NotCalled
    /\ xIndex <= Len(Harvesters)
    /\ \E resp \in AllResponses(Harvesters[xIndex]) :
          LET result == HarvestOf(Harvesters[xIndex], resp)
          IN /\ xInvoked' = Append(xInvoked, Harvesters[xIndex])
             /\ xReturned' = Append(xReturned, result)
             /\ all_signals' = Extended(all_signals, result)
             /\ xIndex' = AfterHarvester(xIndex, result)
    /\ UNCHANGED xResult
    /\ AllFrame

\* return all_signals
AllReturn ==
    /\ xResult = NotCalled
    /\ xIndex > Len(Harvesters)
    /\ xResult' = [called |-> TRUE, out |-> all_signals]
    /\ UNCHANGED <<xIndex, xInvoked, xReturned, all_signals>>
    /\ AllFrame

AllNext ==
    \/ HarvestOne
    \/ AllReturn

\* The signals of the harvesters i..n that returned, in order.
RECURSIVE Concatenated(_, _)
Concatenated(returned, i) ==
    IF i > Len(returned) THEN <<>>
    ELSE (IF returned[i].raised THEN <<>> ELSE returned[i].out)
         \o Concatenated(returned, i + 1)

\* C12: the harvesters invoked so far are always the first ones of the fixed
\* order Federal Register, SEC EDGAR, USASpending, DOT NHTSA, FEMA, EIA, each
\* once; harvest_all_extended returns only after all six were invoked,
\* whatever each of them did, and returns the concatenation, in that order,
\* of the signals of those that returned.
C12_AllSixInOrder ==
    /\ Len(xInvoked) <= Len(Harvesters)
    /\ xInvoked = SubSeq(Harvesters, 1, Len(xInvoked))
    /\ xResult # NotCalled =>
          /\ xInvoked = Harvesters
          /\ xResult.out = Concatenated(xReturned, 1)

\* C12 witness: the run returned although the first harvester failed, with
\* the signals of later harvesters.
C12_Witness ==
    /\ xResult # NotCalled
    /\ xReturned[1].out = <<>>
    /\ \E i \in 2..5 : xReturned[i].out # <<>>
    /\ Len(xResult.out) > 1

----------------------------------------------------------------------------
(* BlackSnowMemory.store_signals and store_vectors: the daily JSON Lines   *)
(* files and the totals kept in state.json.  As above, one instance is     *)
(* alive at a time.                                                        *)

\* Bounds: days the run spans, records stored of each kind, records in one call.
MaxDays == 2
MaxStored == 3
MaxBatch == 2

Days == 1..MaxDays

RECURSIVE RecordsUpTo(_, _)
RecordsUpTo(files, d) ==
    IF d = 0 THEN 0 ELSE Len(files[d]) + RecordsUpTo(files, d - 1)

\* The number of records in all the files of a directory.
Records(files) == RecordsUpTo(files, MaxDays)

\* The records written for a list of n items: each item is told from every
\* other by its number in the order of arrival.
Written(files, n) ==
    [i \in 1..n |-> [item |-> Records(files) + i, day |-> today]]

\* Mutant: open(filepath, 'w').
Overwritten(file, records) == records

\* open(filepath, 'a'): f.write(json.dumps(record) + "\n") for each item.
AppendedTo(file, records) == file \o records

StoreIdle ==
    /\ today = 1
    /\ signalsFiles = [d \in Days |-> <<>>]
    /\ vectorsFiles = [d \in Days |-> <<>>]
    /\ storeLast = NoOp

StoreFrame ==
    UNCHANGED <<now, guardVars, pubVars, harvVars, accVars, pipeVars,
                normVars, orchVars, pairVars, allVars, made, memLast,
                typeVars, sigVars, foreVars, stageVars, webVars, lorVars,
                scanVars, spotVars, tvVars>>

\* store_signals(signals) with n signals
StoreSignals(n) ==
    /\ memory # NoMemory
    /\ Records(signalsFiles) + n <= MaxStored
    /\ LET records == Written(signalsFiles, n)
           stored == Len(records)
           new == [memory EXCEPT !.total_signals = @ + stored,
                                 !.last_harvest = now]
       IN /\ signalsFiles' = [signalsFiles EXCEPT ![today] = AppendedTo(@, records)]
          /\ memory' = new
          /\ stateFile' = JsonDump(new)
          /\ storeLast' = [op |-> "store_signals", given |-> n, returned |-> stored]
    /\ UNCHANGED <<today, vectorsFiles>>
    /\ StoreFrame

\* store_vectors(vectors) with n primitives
StoreVectors(n) ==
    /\ memory # NoMemory
    /\ Records(vectorsFiles) + n <= MaxStored
    /\ LET records == Written(vectorsFiles, n)
           stored == Len(records)
           new == [memory EXCEPT !.total_vectors = @ + stored]
       IN /\ vectorsFiles' = [vectorsFiles EXCEPT ![today] = AppendedTo(@, records)]
          /\ memory' = new
          /\ stateFile' = JsonDump(new)
          /\ storeLast' = [op |-> "store_vectors", given |-> n, returned |-> stored]
    /\ UNCHANGED <<today, signalsFiles>>
    /\ StoreFrame

\* BlackSnowMemory(): the next process loads the state.
StoreNewMemory ==
    /\ memory' = LoadState(now)
    /\ storeLast' = NoOp
    /\ UNCHANGED <<stateFile, today, signalsFiles, vectorsFiles>>
    /\ StoreFrame

\* Midnight UTC passes.
Midnight ==
    /\ today < MaxDays
    /\ today' = today + 1
    /\ storeLast' = NoOp
    /\ UNCHANGED <<stateFile, memory, signalsFiles, vectorsFiles>>
    /\ StoreFrame

StoreNext ==
    \/ StoreNewMemory
    \/ \E n \in 0..MaxBatch : StoreSignals(n)
    \/ \E n \in 0..MaxBatch : StoreVectors(n)
    \/ Midnight

IsPrefix(s, t) == Len(s) <= Len(t) /\ s = SubSeq(t, 1, Len(s))

\* C20: in every state, state.json's total_signals is the number of records
\* in the signals files and total_vectors the number of records in the
\* vectors files (both zero while there is no state.json), and the last call
\* returned the number of items it was given; and no step removes or
\* rewrites a record: every file keeps what it held as the beginning of what
\* it holds.
C20_TotalsMatchFiles ==
    /\ [](/\ stateFile = NoFile =>
                Records(signalsFiles) = 0 /\ Records(vectorsFiles) = 0
          /\ stateFile # NoFile =>
                /\ JsonLoad(stateFile).total_signals = Records(signalsFiles)
                /\ JsonLoad(stateFile).total_vectors = Records(vectorsFiles)
          /\ storeLast # NoOp => storeLast.returned = storeLast.given)
    /\ [][\A d \in Days :
             /\ IsPrefix(signalsFiles[d], signalsFiles'[d])
             /\ IsPrefix(vectorsFiles[d], vectorsFiles'[d])]_vars

\* C20 witness: signals were stored on two days and vectors too, the last
\* call adding to records stored before it.
C20_Witness ==
    /\ \A d \in {1, 2} : signalsFiles[d] # <<>>
    /\ Records(vectorsFiles) > 0
    /\ storeLast # NoOp
    /\ storeLast.given > 0
    /\ JsonLoad(stateFile).total_signals + JsonLoad(stateFile).total_vectors
          > storeLast.given

----------------------------------------------------------------------------
(* BlackSnow Normalizer._detect_signal_type(text).                         *)

\* The chain of if statements: the type each returns and its trigger words.
TRIGGERS == <<
    [type |-> "deferral",
     words |-> <<
         <<"d", "e", "f", "e", "r">>,
         <<"b", "a", "c", "k", "l", "o", "g">>,
         <<"d", "e", "l", "a", "y", "e", "d">>,
         <<"p", "o", "s", "t", "p", "o", "n", "e">>>>],
    [type |-> "acceleration",
     words |-> <<
         <<"e", "x", "p", "e", "d", "i", "t", "e">>,
         <<"e", "m", "e", "r", "g", "e", "n", "c", "y">>,
         <<"u", "r", "g", "e", "n", "t">>,
         <<"i", "m", "m", "e", "d", "i", "a", "t", "e">>>>],
    [type |-> "grievance_surge",
     words |-> <<
         <<"g", "r", "i", "e", "v", "a", "n", "c", "e">>,
         <<"c", "o", "m", "p", "l", "a", "i", "n", "t">>,
         <<"d", "i", "s", "p", "u", "t", "e">>>>],
    [type |-> "attrition_spike",
     words |-> <<
         <<"r", "e", "s", "i", "g", "n">>,
         <<"d", "e", "p", "a", "r", "t", "u", "r", "e">>,
         <<"e", "x", "i", "t">>,
         <<"l", "e", "a", "v", "e">>>>],
    [type |-> "language_shift",
     words |-> <<
         <<"e", "x", "t", "e", "n", "s", "i", "o", "n">>,
         <<"c", "o", "n", "s", "u", "l", "t", "a", "t", "i", "o", "n">>,
         <<"d", "r", "a", "f", "t">>>>],
    [type |-> "disaster_declaration",
     words |-> <<
         <<"d", "i", "s", "a", "s", "t", "e", "r">>,
         <<"f", "e", "m", "a">>,
         <<"d", "e", "c", "l", "a", "r", "a", "t", "i", "o", "n">>,
         <<"d", "e", "c", "l", "a", "r", "e", "d">>>>],
    [type |-> "weather_event",
     words |-> <<
         <<"s", "t", "o", "r", "m">>,
         <<"h", "u", "r", "r", "i", "c", "a", "n", "e">>,
         <<"t", "o", "r", "n", "a", "d", "o">>,
         <<"f", "l", "o", "o", "d">>,
         <<"b", "l", "i", "z", "z", "a", "r", "d">>,
         <<"i", "c", "e", " ", "s", "t", "o", "r", "m">>,
         <<"w", "i", "n", "t", "e", "r", " ", "s", "t", "o", "r", "m">>>>],
    [type |-> "emergency_response",
     words |-> <<
         <<"e", "v", "a", "c", "u", "a", "t", "i", "o", "n">>,
         <<"s", "h", "e", "l", "t", "e", "r">>,
         <<"r", "e", "s", "c", "u", "e">>,
         <<"r", "e", "s", "p", "o", "n", "s", "e">>>>]>>

\* any(w in text_lower for w in words)
AnyIn(words, text_lower) ==
    \E k \in 1..Len(words) : Contains(words[k], text_lower)

\* The if statements from the i-th on.
RECURSIVE TypeFrom(_, _)
TypeFrom(i, text_lower) ==
    IF i > Len(TRIGGERS) THEN "unknown"
    ELSE IF AnyIn(TRIGGERS[i].words, text_lower) THEN TRIGGERS[i].type
    ELSE TypeFrom(i + 1, text_lower)

\* Mutant: the chain is gone through from its last statement.
DetectSignalTypeLast(text) ==
    LET hits == {i \in 1..Len(TRIGGERS) : AnyIn(TRIGGERS[i].words, LowerText(text))}
    IN IF hits = {} THEN "unknown"
       ELSE TRIGGERS[CHOOSE i \in hits : \A j \in hits : j <= i].type

DetectSignalType(text) == TypeFrom(1, LowerText(text))

\* The words the texts are made of.
TypeWords == {
    <<"D", "e", "f", "e", "r", "r", "e", "d">>,
    <<"E", "M", "E", "R", "G", "E", "N", "C", "Y">>,
    <<"d", "i", "s", "p", "u", "t", "e">>,
    <<"l", "e", "a", "v", "e">>,
    <<"d", "r", "a", "f", "t">>,
    <<"F", "E", "M", "A">>,
    <<"s", "t", "o", "r", "m">>,
    <<"s", "h", "e", "l", "t", "e", "r">>,
    <<"t", "h", "e">>}

SignalTexts ==
    {JoinWords(ws) : ws \in UNION {[1..n -> TypeWords] : n \in 0..MaxWords}}

TypeIdle ==
    /\ tText = <<>>
    /\ tResult = NotCalled

TypeFrame ==
    UNCHANGED <<now, guardVars, pubVars, harvVars, accVars, memVars,
                pipeVars, normVars, orchVars, pairVars, allVars, storeVars,
                sigVars, foreVars, stageVars, webVars, lorVars, scanVars,
                spotVars, tvVars>>

\* _detect_signal_type(text)
DetectType ==
    /\ tResult = NotCalled
    /\ tResult' = [called |-> TRUE, type |-> DetectSignalType(tText)]
    /\ UNCHANGED tText
    /\ TypeFrame

TypeNext == DetectType

\* The groups with a trigger word occurring in the lower-cased text.
Triggered ==
    {i \in 1..Len(TRIGGERS) :
        \E k \in 1..Len(TRIGGERS[i].words) :
            Contains(TRIGGERS[i].words[k], LowerText(tText))}

\* C17: the groups are tried in the order deferral, acceleration,
\* grievance_surge, attrition_spike, language_shift, disaster_declaration,
\* weather_event, emergency_response; _detect_signal_type returns "unknown"
\* exactly when no group has a trigger word occurring in the lower-cased
\* text, and otherwise the type of the earliest group that has one.
C17_FirstTriggeredGroup ==
    /\ [i \in 1..Len(TRIGGERS) |-> TRIGGERS[i].type]
          = <<"deferral", "acceleration", "grievance_surge", "attrition_spike",
              "language_shift", "disaster_declaration", "weather_event",
              "emergency_response">>
    /\ tResult # NotCalled =>
          /\ (tResult.type = "unknown") <=> (Triggered = {})
          /\ \A i \in Triggered :
                (\A j \in Triggered : i <= j) => tResult.type = TRIGGERS[i].type

\* C17 witness: a text that triggers several groups got the earliest one.
C17_Witness ==
    /\ tResult # NotCalled
    /\ Cardinality(Triggered) >= 2
    /\ \E i \in Triggered :
          /\ \A j \in Triggered : i <= j
          /\ i > 1
          /\ tResult.type = TRIGGERS[i].type

----------------------------------------------------------------------------
(* Normalizer.normalize feeding Accumulator.accumulate: magnitudes and     *)
(* beliefs.  The floats are as above, rounded to nearest, ties to even,    *)
(* with SigBits significant bits and a smallest step of 2^-FracBits: fine  *)
(* enough to tell 0.95, 0.99 and 1.0 apart.                                *)

\* Bounds: significant bits of a float, and the smallest step 2^-FracBits.
SigBits == 7
FracBits == 7

\* 1.0
FineOne == Pow2(FracBits)

FineRound(n, minshift) ==
    LET sh == Max(BitLen(n) - SigBits, minshift)
        unit == Pow2(sh)
        q == n \div unit
        rem == n % unit
        up == 2 * rem > unit \/ (2 * rem = unit /\ q % 2 = 1)
    IN IF sh = 0 THEN n ELSE (IF up THEN q + 1 ELSE q) * unit

\* The floats of [0, 1].
FineFloats == {x \in 0..FineOne : FineRound(x, 0) = x}

FineSub(a, b) == FineRound(a - b, 0)
FineMul(a, b) == FineRound(a * b, FracBits) \div FineOne
FineAdd(a, b) == FineRound(a + b, 0)

\* A decimal literal with two places: the float nearest to h/100.
Literal(h) ==
    CHOOSE c \in FineFloats : \A d \in FineFloats :
        (IF 100 * c >= h * FineOne THEN 100 * c - h * FineOne ELSE h * FineOne - 100 * c)
        <= (IF 100 * d >= h * FineOne THEN 100 * d - h * FineOne ELSE h * FineOne - 100 * d)

\* The literals 0.5 and 0.95.
Half == Literal(50)
TopWeight == Literal(95)

SIGNAL_TYPES ==
    [deferral |-> Literal(60), acceleration |-> Literal(80),
     substitution |-> Half, language_shift |-> Literal(70),
     attrition_spike |-> Literal(90), grievance_surge |-> Literal(60),
     inventory_buffer |-> Half, disaster_declaration |-> TopWeight,
     emergency_response |-> Literal(85), weather_event |-> Literal(75)]

\* SIGNAL_TYPES.get(signal_type, 0.5)
Weight(type) ==
    IF type \in DOMAIN SIGNAL_TYPES THEN SIGNAL_TYPES[type] ELSE Half

\* What _detect_signal_type can return.
SignalTypes == {TRIGGERS[i].type : i \in 1..Len(TRIGGERS)} \cup {"unknown"}

\* sig.confidence of a raw signal: 0, 0.5, 0.85, 0.95 and 1.
Confidences == {0, Half, Literal(85), TopWeight, FineOne}

\* What _detect_ontology returned for the signals of the run.
SignalPaths == {"emergency.disaster"}

\* magnitude=SIGNAL_TYPES.get(signal_type, 0.5) * sig.confidence
Magnitude(type, confidence) == FineMul(Weight(type), confidence)

FineCap == Literal(99)

\* Mutant: the posterior is stored as it is.
FineBlendNoCap(prior, likelihood) ==
    FineAdd(prior, FineMul(likelihood, FineSub(FineOne, prior)))

\* min(prior + likelihood * (1 - prior), 0.99)
FineBlend(prior, likelihood) ==
    Min(FineAdd(prior, FineMul(likelihood, FineSub(FineOne, prior))), FineCap)

NoSignal == [pending |-> FALSE]

SigIdle ==
    /\ sigBeliefs = EmptyDict
    /\ sigPending = NoSignal
    /\ sigLast = NoOp

SigFrame ==
    UNCHANGED <<now, guardVars, pubVars, harvVars, accVars, memVars,
                pipeVars, normVars, orchVars, pairVars, allVars, storeVars,
                typeVars, foreVars, stageVars, webVars, lorVars, scanVars,
                spotVars, tvVars>>

\* Normalizer.normalize, one raw signal: the normalized signal built from it.
NormalizeSignal(path, type, confidence) ==
    /\ sigPending = NoSignal
    /\ sigPending' = [pending |-> TRUE, ontology_path |-> path, signal_type |-> type,
                      magnitude |-> Magnitude(type, confidence)]
    /\ sigLast' = NoOp
    /\ UNCHANGED sigBeliefs
    /\ SigFrame

\* Accumulator.accumulate, one normalized signal: the body of the loop.
AccumulateSignal ==
    /\ sigPending # NoSignal
    /\ LET vector == sigPending.ontology_path
           prior == Get(sigBeliefs, vector, 0)
       IN /\ sigBeliefs' = Put(sigBeliefs, vector, FineBlend(prior, sigPending.magnitude))
          /\ sigLast' = [op |-> "accumulate", vector |-> vector, prior |-> prior,
                         magnitude |-> sigPending.magnitude]
    /\ sigPending' = NoSignal
    /\ SigFrame

SigNext ==
    \/ \E p \in SignalPaths, t \in SignalTypes, c \in Confidences :
          NormalizeSignal(p, t, c)
    \/ AccumulateSignal

\* C16: every belief lies in [0, 0.99] and every magnitude in [0, 0.95]; the
\* magnitude of a signal of unknown type is at most 0.5; and a belief that
\* was 0.99 before a signal is 0.99 after it.
C16_BeliefAndMagnitudeBounds ==
    /\ \A v \in DOMAIN sigBeliefs : 0 <= sigBeliefs[v] /\ sigBeliefs[v] <= FineCap
    /\ sigPending # NoSignal =>
          /\ 0 <= sigPending.magnitude /\ sigPending.magnitude <= TopWeight
          /\ sigPending.signal_type = "unknown" => sigPending.magnitude <= Half
    /\ sigLast # NoOp =>
          (sigLast.prior = FineCap => sigBeliefs[sigLast.vector] = FineCap)

\* C16 witness: a belief at 0.99 met a signal of magnitude 0.95 and stayed.
C16_Witness ==
    /\ sigLast # NoOp
    /\ sigLast.prior = FineCap
    /\ sigLast.magnitude = TopWeight
    /\ sigBeliefs[sigLast.vector] = FineCap
    /\ FineCap < FineOne /\ TopWeight < FineCap

----------------------------------------------------------------------------
(* Forecaster.forecast(belief_states).  Beliefs, base probabilities and    *)
(* thresholds are floats as in the section above.                          *)

\* The two-place decimal literals, each read as a float.
Literals == [h \in 0..100 |-> Literal(h)]

\* Mutant: round(x, 2) leaves x as it is.
Unrounded(x) == x

\* round(x, 2): the nearest multiple of 0.01, ties to even, read as a float.
Round2(x) ==
    LET q == (100 * x) \div FineOne
        rem == (100 * x) % FineOne
        up == 2 * rem > FineOne \/ (2 * rem = FineOne /\ q % 2 = 1)
    IN Literals[IF up THEN q + 1 ELSE q]

\* outcome_templates.get(vector, [{"event": "disruption", "base_prob": 0.3}])
Templates(vector) ==
    CASE vector = "infra.energy.grid" ->
            <<[event |-> "localized_outage", base_prob |-> Literals[40]],
              [event |-> "price_volatility", base_prob |-> Literals[30]],
              [event |-> "policy_intervention", base_prob |-> Literals[20]]>>
      [] vector = "labor.union" ->
            <<[event |-> "work_slowdown", base_prob |-> Literals[50]],
              [event |-> "strike_action", base_prob |-> Literals[30]],
              [event |-> "contract_renegotiation", base_prob |-> Literals[40]]>>
      [] vector = "emergency.disaster" ->
            <<[event |-> "infrastructure_damage", base_prob |-> Literals[60]],
              [event |-> "supply_chain_disruption", base_prob |-> Literals[50]],
              [event |-> "insurance_claims_surge", base_prob |-> Literals[70]],
              [event |-> "federal_aid_deployment", base_prob |-> Literals[40]]>>
      [] vector = "emergency.weather" ->
            <<[event |-> "travel_disruption", base_prob |-> Literals[60]],
              [event |-> "power_outage", base_prob |-> Literals[50]],
              [event |-> "commodity_price_spike", base_prob |-> Literals[40]]>>
      [] vector = "infra.transport.port" ->
            <<[event |-> "shipping_delays", base_prob |-> Literals[50]],
              [event |-> "cargo_rerouting", base_prob |-> Literals[40]],
              [event |-> "supply_shortage", base_prob |-> Literals[30]]>>
      [] vector = "infra.transport.rail" ->
            <<[event |-> "freight_delays", base_prob |-> Literals[50]],
              [event |-> "service_disruption", base_prob |-> Literals[40]]>>
      [] OTHER -> <<[event |-> "disruption", base_prob |-> Literals[30]]>>

\* _generate_outcomes(vector, confidence)
GenerateOutcomes(vector, confidence) ==
    LET templates == Templates(vector)
    IN [i \in 1..Len(templates) |->
          [event |-> templates[i].event,
           probability |-> Round2(FineMul(templates[i].base_prob, confidence))]]

\* _estimate_horizon(confidence)
EstimateHorizon(confidence) ==
    IF confidence > Literals[80] THEN "7-14"
    ELSE IF confidence > Literals[60] THEN "14-30"
    ELSE IF confidence > Literals[40] THEN "30-60"
    ELSE "60-90"

\* forecast(belief_states): the loop over the items from the i-th on.
RECURSIVE ForecastFrom(_, _)
ForecastFrom(items, i) ==
    IF i > Len(items) THEN <<>>
    ELSE (IF items[i].belief > Literals[30]
          THEN <<[risk_vector |-> items[i].vector,
                  confidence |-> Round2(items[i].belief),
                  time_horizon_days |-> EstimateHorizon(items[i].belief),
                  outcomes |-> GenerateOutcomes(items[i].vector, items[i].belief)]>>
          ELSE <<>>)
         \o ForecastFrom(items, i + 1)

Forecast(items) == ForecastFrom(items, 1)

\* The risk vectors of the runs: one with a template of its own, one without.
ForecastVectors == {"labor.union", "unknown"}

\* Beliefs the Accumulator can hold.
Beliefs == {b \in FineFloats : b <= FineCap}

\* The dictionaries given to forecast: every order of insertion of every
\* subset of the vectors, with every belief.
BeliefItems ==
    {items \in UNION {[1..n -> [vector : ForecastVectors, belief : Beliefs]] :
                         n \in 0..Cardinality(ForecastVectors)} :
        \A i, j \in 1..Len(items) : i # j => items[i].vector # items[j].vector}

ForeIdle ==
    /\ fBeliefs = <<>>
    /\ fResult = NotCalled

ForeFrame ==
    UNCHANGED <<now, guardVars, pubVars, harvVars, accVars, memVars,
                pipeVars, normVars, orchVars, pairVars, allVars, storeVars,
                typeVars, sigVars, stageVars, webVars, lorVars, scanVars,
                spotVars, tvVars>>

\* forecaster.forecast(belief_states)
DoForecast ==
    /\ fResult = NotCalled
    /\ fResult' = [called |-> TRUE, forecasts |-> Forecast(fBeliefs)]
    /\ UNCHANGED fBeliefs
    /\ ForeFrame

ForeNext == DoForecast

\* The items that get a forecast, in order, and how long a horizon lasts.
Emitting == SelectSeq(fBeliefs, LAMBDA it : it.belief > Literals[30])
HorizonRank(h) ==
    CASE h = "7-14" -> 1 [] h = "14-30" -> 2 [] h = "30-60" -> 3 [] h = "60-90" -> 4

\* C18 as stated: one forecast for each vector with a belief above 0.3, in
\* order, and none for the others; the horizon follows the thresholds 0.8,
\* 0.6 and 0.4 and is never longer for a higher belief; each outcome
\* probability is the base probability times the belief and is at most the
\* base probability.
C18_Original ==
    fResult # NotCalled =>
        LET fc == fResult.forecasts
        IN /\ Len(fc) = Len(Emitting)
           /\ \A i \in 1..Len(fc) :
                 LET c == Emitting[i].belief
                     t == Templates(Emitting[i].vector)
                 IN /\ fc[i].risk_vector = Emitting[i].vector
                    /\ fc[i].time_horizon_days =
                          (IF c > Literals[80] THEN "7-14"
                           ELSE IF c > Literals[60] THEN "14-30"
                           ELSE IF c > Literals[40] THEN "30-60" ELSE "60-90")
                    /\ \A j \in 1..Len(fc) :
                          c >= Emitting[j].belief =>
                             HorizonRank(fc[i].time_horizon_days)
                                <= HorizonRank(fc[j].time_horizon_days)
                    /\ Len(fc[i].outcomes) = Len(t)
                    /\ \A k \in 1..Len(t) :
                          /\ fc[i].outcomes[k].event = t[k].event
                          /\ fc[i].outcomes[k].probability = FineMul(t[k].base_prob, c)
                          /\ fc[i].outcomes[k].probability <= t[k].base_prob

\* C18, amended: as above, except that each outcome probability is the base
\* probability times the belief rounded to two decimal places: a two-place
\* decimal at most 0.005 away from the product, and at most the base
\* probability.
C18_RoundedProbabilities ==
    fResult # NotCalled =>
        LET fc == fResult.forecasts
        IN /\ Len(fc) = Len(Emitting)
           /\ \A i \in 1..Len(fc) :
                 LET c == Emitting[i].belief
                     t == Templates(Emitting[i].vector)
                 IN /\ fc[i].risk_vector = Emitting[i].vector
                    /\ fc[i].time_horizon_days =
                          (IF c > Literals[80] THEN "7-14"
                           ELSE IF c > Literals[60] THEN "14-30"
                           ELSE IF c > Literals[40] THEN "30-60" ELSE "60-90")
                    /\ \A j \in 1..Len(fc) :
                          c >= Emitting[j].belief =>
                             HorizonRank(fc[i].time_horizon_days)
                                <= HorizonRank(fc[j].time_horizon_days)
                    /\ Len(fc[i].outcomes) = Len(t)
                    /\ \A k \in 1..Len(t) :
                          LET x == FineMul(t[k].base_prob, c)
                          IN /\ fc[i].outcomes[k].event = t[k].event
                             /\ \E h \in 0..100 :
                                   /\ fc[i].outcomes[k].probability = Literals[h]
                                   /\ 2 * (100 * x - h * FineOne) <= FineOne
                                   /\ 2 * (h * FineOne - 100 * x) <= FineOne
                             /\ fc[i].outcomes[k].probability <= t[k].base_prob

\* C18 witness: of two vectors one got a forecast, with a horizon of 14 to 30
\* days and a probability that is not the plain product.
C18_Witness ==
    /\ fResult # NotCalled
    /\ Len(fBeliefs) = 2
    /\ Len(fResult.forecasts) = 1
    /\ fResult.forecasts[1].time_horizon_days = "14-30"
    /\ \E k \in 1..Len(fResult.forecasts[1].outcomes) :
          fResult.forecasts[1].outcomes[k].probability
             # FineMul(Templates(fResult.forecasts[1].risk_vector)[k].base_prob,
                       Emitting[1].belief)

----------------------------------------------------------------------------
(* run_full_pipeline: what each stage hands to the next.  Raw signals      *)
(* carry a text and a confidence; normalize, accumulate, forecast and      *)
(* package are the functions of the sections above, applied to the run's   *)
(* own lists.                                                              *)

\* Bound: raw signals harvested in one run.
MaxSignals == 3

\* raw_text of the harvested signals.
StageTexts == {
    <<"u", "n", "i", "o", "n", " ", "d", "i", "s", "p", "u", "t", "e">>,
    <<"S", "t", "o", "r", "m">>,
    <<"t", "h", "e">>}

\* sig.confidence of the harvested signals: 0.5 and 0.85.
StageConfidences == {Half, Literals[85]}

\* A harvested signal; text_ok is false for a raw_text that is not a string.
RawSignals ==
    [text_ok : {TRUE}, raw_text : StageTexts, confidence : StageConfidences]
    \cup [text_ok : {FALSE}, raw_text : {<<>>}, confidence : StageConfidences]

RawLists == UNION {[1..n -> RawSignals] : n \in 0..MaxSignals}

\* Normalizer.normalize(signals); source_refs holds the signal's place in the
\* list given.
Normalized(raw) ==
    [i \in 1..Len(raw) |->
        [source_refs |-> <<i>>,
         ontology_path |-> DetectOntology(raw[i].raw_text),
         signal_type |-> DetectSignalType(raw[i].raw_text),
         magnitude |-> Magnitude(DetectSignalType(raw[i].raw_text), raw[i].confidence)]]

\* Mutant: every signal opens an entry of its own.
AccumulatedOneEach(items, sig) ==
    Append(items, [vector |-> sig.ontology_path,
                   belief |-> FineBlend(0, sig.magnitude)])

\* The body of the loop of accumulate on the dictionary's items: the entry of
\* the signal's path is blended in place; a new path is entered last.
AccumulatedOne(items, sig) ==
    IF \E k \in 1..Len(items) : items[k].vector = sig.ontology_path
    THEN [k \in 1..Len(items) |->
            IF items[k].vector = sig.ontology_path
            THEN [vector |-> items[k].vector,
                  belief |-> FineBlend(items[k].belief, sig.magnitude)]
            ELSE items[k]]
    ELSE Append(items, [vector |-> sig.ontology_path,
                        belief |-> FineBlend(0, sig.magnitude)])

\* Accumulator().accumulate(signals)
RECURSIVE AccumulatedFrom(_, _, _)
AccumulatedFrom(signals, i, items) ==
    IF i > Len(signals) THEN items
    ELSE AccumulatedFrom(signals, i + 1, AccumulatedOne(items, signals[i]))

\* Packager.package(forecasts, normalized); tradability, a function of the
\* risk vector alone, is left out.
Packaged(forecasts, normalized) ==
    [i \in 1..Len(forecasts) |->
        [risk_vector |-> forecasts[i].risk_vector,
         signal_confidence |-> forecasts[i].confidence,
         time_horizon_days |-> forecasts[i].time_horizon_days,
         contributing_domains |->
            {normalized[k].signal_type :
                k \in {n \in 1..Len(normalized) :
                          normalized[n].ontology_path = forecasts[i].risk_vector}},
         likely_outcomes |->
            [k \in 1..Len(forecasts[i].outcomes) |-> forecasts[i].outcomes[k].event]]]

StageIdle ==
    /\ sPc = "harvest"
    /\ sRaw = NotCalled
    /\ sNormalized = NotCalled
    /\ sBeliefs = NotCalled
    /\ sForecasts = NotCalled
    /\ sPrimitives = NotCalled

StageFrame ==
    UNCHANGED <<now, guardVars, pubVars, harvVars, accVars, memVars,
                pipeVars, normVars, orchVars, pairVars, allVars, storeVars,
                typeVars, sigVars, foreVars, webVars, lorVars, scanVars,
                spotVars, tvVars>>

\* raw_signals = harvest_all_sources() + harvest_all_extended()
SHarvest(raw) ==
    /\ sPc = "harvest"
    /\ sRaw' = [called |-> TRUE, out |-> raw]
    /\ sPc' = "normalize"
    /\ UNCHANGED <<sNormalized, sBeliefs, sForecasts, sPrimitives>>
    /\ StageFrame

\* normalized = normalizer.normalize(normalized_input); text.lower() throws on
\* a raw_text that is not a string and the exception leaves the run.
SNormalize ==
    /\ sPc = "normalize"
    /\ IF \E i \in 1..Len(sRaw.out) : ~sRaw.out[i].text_ok
       THEN /\ sPc' = "raised"
            /\ UNCHANGED sNormalized
       ELSE /\ sPc' = "accumulate"
            /\ sNormalized' = [called |-> TRUE, out |-> Normalized(sRaw.out)]
    /\ UNCHANGED <<sRaw, sBeliefs, sForecasts, sPrimitives>>
    /\ StageFrame

\* belief_states = Accumulator().accumulate(normalized)
SAccumulate ==
    /\ sPc = "accumulate"
    /\ sBeliefs' = [called |-> TRUE, out |-> AccumulatedFrom(sNormalized.out, 1, <<>>)]
    /\ sPc' = "forecast"
    /\ UNCHANGED <<sRaw, sNormalized, sForecasts, sPrimitives>>
    /\ StageFrame

\* forecasts = forecaster.forecast(belief_states)
SForecast ==
    /\ sPc = "forecast"
    /\ sForecasts' = [called |-> TRUE, out |-> Forecast(sBeliefs.out)]
    /\ sPc' = "package"
    /\ UNCHANGED <<sRaw, sNormalized, sBeliefs, sPrimitives>>
    /\ StageFrame

\* primitives = packager.package(forecasts, normalized)
SPackage ==
    /\ sPc = "package"
    /\ sPrimitives' = [called |-> TRUE, out |-> Packaged(sForecasts.out, sNormalized.out)]
    /\ sPc' = "done"
    /\ UNCHANGED <<sRaw, sNormalized, sBeliefs, sForecasts>>
    /\ StageFrame

StageNext ==
    \/ \E raw \in RawLists : SHarvest(raw)
    \/ SNormalize
    \/ SAccumulate
    \/ SForecast
    \/ SPackage

\* C19: the outputs of the stages a run has performed are consistent: the
\* normalized signals are those of the harvested ones, one each and in the
\* same order; the belief vectors are the distinct ontology paths of the
\* normalized signals, one each; there is one primitive per forecast, for the
\* same risk vector, and the risk vectors are pairwise distinct; every
\* primitive has a contributing domain, some normalized signal having its
\* risk vector as ontology path; and
\* primitives = forecasts <= belief vectors <= normalized = harvested.
C19_StageOutputsConsistent ==
    /\ sNormalized # NotCalled =>
          /\ Len(sNormalized.out) = Len(sRaw.out)
          /\ \A i \in 1..Len(sRaw.out) : sNormalized.out[i].source_refs = <<i>>
    /\ sBeliefs # NotCalled =>
          /\ {sBeliefs.out[k].vector : k \in 1..Len(sBeliefs.out)}
                = {sNormalized.out[i].ontology_path : i \in 1..Len(sNormalized.out)}
          /\ \A k, l \in 1..Len(sBeliefs.out) :
                k # l => sBeliefs.out[k].vector # sBeliefs.out[l].vector
          /\ Len(sBeliefs.out) <= Len(sNormalized.out)
    /\ sForecasts # NotCalled => Len(sForecasts.out) <= Len(sBeliefs.out)
    /\ sPrimitives # NotCalled =>
          /\ Len(sPrimitives.out) = Len(sForecasts.out)
          /\ \A i \in 1..Len(sPrimitives.out) :
                /\ sPrimitives.out[i].risk_vector = sForecasts.out[i].risk_vector
                /\ sPrimitives.out[i].contributing_domains # {}
                /\ \E n \in 1..Len(sNormalized.out) :
                      sNormalized.out[n].ontology_path = sPrimitives.out[i].risk_vector
                /\ \A j \in 1..Len(sPrimitives.out) :
                      i # j => sPrimitives.out[i].risk_vector # sPrimitives.out[j].risk_vector

\* C19 witness: a run of three signals on two paths, of which one is
\* forecast and packaged.
C19_Witness ==
    /\ sPc = "done"
    /\ Len(sRaw.out) = 3
    /\ Len(sBeliefs.out) = 2
    /\ Len(sForecasts.out) = 1
    /\ Len(sPrimitives.out) = 1

----------------------------------------------------------------------------
(* WebhookDelivery.deliver(primitives), called by stage 7 of               *)
(* run_full_pipeline (tier "operator") or by webhook.py with any tier.     *)

\* Bound: primitives given to one delivery.
MaxPrimitives == 2

\* config.tier: the four tiers and a name that is none of them.
Tiers == {"observer", "operator", "fund_api", "sovereign", "trial"}

\* How urlopen can end: a response, an HTTPError (error status), a URLError
\* (the host cannot be reached), or another exception (Request refuses the
\* URL, the connection times out while reading).
PostOutcomes == {"ok", "http_error", "url_error", "other"}

\* Risk primitives as dictionaries (asdict(RiskPrimitive)); the risk vector is
\* kept as its labels, so that split(".")[0] is the first label. The fields
\* that only the paying tiers may see depend on the vector.
VectorLabels == {<<"labor", "union">>, <<"labor", "attrition">>, <<"unknown">>}

ConfidenceHorizons ==
    {<<Literals[35], "60-90">>, <<Literals[45], "30-60">>,
     <<Literals[50], "30-60">>, <<Literals[85], "7-14">>}

PrimitiveDicts ==
    {[risk_vector |-> v, signal_confidence |-> c[1], time_horizon_days |-> c[2],
      contributing_domains |-> IF v = <<"unknown">> THEN <<>> ELSE <<v[2]>>,
      likely_outcomes |-> IF v[1] = "labor" THEN <<"strike">> ELSE <<>>,
      tradability |-> [insurance |-> v[1] = "labor", policy |-> v = <<"labor", "union">>]] :
        v \in VectorLabels, c \in ConfidenceHorizons}

PrimitiveLists == UNION {[1..n -> PrimitiveDicts] : n \in 0..MaxPrimitives}

\* hashlib.md5(json.dumps(p, sort_keys=True).encode()).hexdigest()[:12]
StreamId(p) == <<"md5", p>>

\* Mutant: the observer tier leaves out the primitives of low confidence.
FilterByTierDropsLow(tier, primitives) ==
    IF tier = "observer"
    THEN SelectSeq(primitives, LAMBDA p : p.signal_confidence > Literals[40])
    ELSE primitives

\* Mutant: the observer tier passes the risk vector whole.
FilterByTierWholeVector(tier, primitives) ==
    IF tier = "observer"
    THEN [i \in 1..Len(primitives) |->
            [risk_domain |-> primitives[i].risk_vector,
             signal_level |->
                IF primitives[i].signal_confidence > Literals[70] THEN "high"
                ELSE IF primitives[i].signal_confidence > Literals[40] THEN "medium"
                ELSE "low",
             time_horizon |-> primitives[i].time_horizon_days,
             delayed_by_hours |-> 24]]
    ELSE primitives

\* _filter_by_tier(primitives); {**p, key: value} is p with the keys added.
FilterByTier(tier, primitives) ==
    CASE tier = "observer" ->
            [i \in 1..Len(primitives) |->
                [risk_domain |-> primitives[i].risk_vector[1],
                 signal_level |->
                    IF primitives[i].signal_confidence > Literals[70] THEN "high"
                    ELSE IF primitives[i].signal_confidence > Literals[40] THEN "medium"
                    ELSE "low",
                 time_horizon |-> primitives[i].time_horizon_days,
                 delayed_by_hours |-> 24]]
      [] tier = "operator" -> primitives
      [] tier = "fund_api" ->
            [i \in 1..Len(primitives) |->
                [delivery_timestamp |-> now,
                 stream_id |-> StreamId(primitives[i])] @@ primitives[i]]
      [] tier = "sovereign" ->
            [i \in 1..Len(primitives) |->
                [delivery_timestamp |-> now,
                 exclusivity_marker |-> TRUE,
                 raw_signal_count |-> 0] @@ primitives[i]]
      [] OTHER -> primitives

\* payload = {"source": ..., "tier": ..., "primitives": filtered, "count": ...}
Payload(tier, filtered) ==
    [source |-> "blacksnow", tier |-> tier, generated_at |-> now,
     primitives |-> filtered, count |-> Len(filtered)]

\* What deliver returns after the try statement, for each way urlopen ends.
Delivery(outcome, tier, filtered) ==
    CASE outcome = "ok" ->
            [success |-> TRUE, status_code |-> 200,
             primitives_sent |-> Len(filtered), tier |-> tier]
      [] outcome = "http_error" ->
            [success |-> FALSE, error |-> "HTTP 500: Internal Server Error"]
      [] outcome = "url_error" ->
            [success |-> FALSE, error |-> "[Errno 111] Connection refused"]
      [] outcome = "other" ->
            [success |-> FALSE, error |-> "unknown url type"]

WebIdle ==
    /\ wCaller = "webhook.py"
    /\ wTier = "operator"
    /\ wPrimitives = <<>>
    /\ wPosts = <<>>
    /\ wResult = NotCalled
    /\ wReturned = NotCalled

WebFrame ==
    UNCHANGED <<now, guardVars, pubVars, harvVars, accVars, memVars,
                pipeVars, normVars, orchVars, pairVars, allVars, storeVars,
                typeVars, sigVars, foreVars, stageVars, lorVars, scanVars,
                spotVars, tvVars>>

\* delivery.deliver(primitives): one pass through the try statement, that is
\* one POST attempt, however it ends.
Deliver(outcome) ==
    /\ wResult = NotCalled
    /\ LET filtered == FilterByTier(wTier, wPrimitives)
       IN /\ wPosts' = Append(wPosts, Payload(wTier, filtered))
          /\ wResult' = Delivery(outcome, wTier, filtered)
    /\ UNCHANGED <<wCaller, wTier, wPrimitives, wReturned>>
    /\ WebFrame

\* results["webhook"] = webhook_result; results["primitives"] = [asdict(p) for
\* p in primitives]; return results
PipelineReturn ==
    /\ wCaller = "run_full_pipeline"
    /\ wResult # NotCalled
    /\ wReturned = NotCalled
    /\ wReturned' = [called |-> TRUE, webhook |-> wResult, primitives |-> wPrimitives]
    /\ UNCHANGED <<wCaller, wTier, wPrimitives, wPosts, wResult>>
    /\ WebFrame

WebNext ==
    \/ \E outcome \in PostOutcomes : Deliver(outcome)
    \/ PipelineReturn

\* C11: once deliver has returned, exactly one POST was attempted, carrying as
\* many primitives as were given; the result either reports success with
\* primitives_sent equal to the number of primitives given, or reports
\* failure with an error string; and run_full_pipeline returns after the
\* delivery, failed or not, with the primitives it gave.
C11_OnePostNoRaise ==
    /\ Len(wPosts) <= 1
    /\ wResult # NotCalled =>
          /\ Len(wPosts) = 1
          /\ wPosts[1].count = Len(wPrimitives)
          /\ Len(wPosts[1].primitives) = Len(wPrimitives)
          /\ wResult.success \in BOOLEAN
          /\ wResult.success => wResult.primitives_sent = Len(wPrimitives)
          /\ ~wResult.success =>
                wResult.error \in {"HTTP 500: Internal Server Error",
                                   "[Errno 111] Connection refused",
                                   "unknown url type"}
    /\ wReturned # NotCalled =>
          /\ wReturned.primitives = wPrimitives
          /\ wReturned.webhook = wResult
    /\ (wCaller = "run_full_pipeline" /\ wResult # NotCalled /\ wReturned = NotCalled)
          => ENABLED PipelineReturn

\* C11 witness: run_full_pipeline returned its two primitives after a failed
\* delivery.
C11_Witness ==
    /\ wReturned # NotCalled
    /\ ~wResult.success
    /\ Len(wReturned.primitives) = 2
    /\ Len(wPosts) = 1

\* The three things the observer tier keeps of a primitive.
ObserverView(p) ==
    <<p.risk_vector[1],
      IF p.signal_confidence > Literals[70] THEN "high"
      ELSE IF p.signal_confidence > Literals[40] THEN "medium" ELSE "low",
      p.time_horizon_days>>

\* Two lists agree, position by position, on what the observer tier keeps.
AgreeForObserver(ps, qs) ==
    /\ Len(ps) = Len(qs)
    /\ \A i \in 1..Len(ps) : ObserverView(ps[i]) = ObserverView(qs[i])

\* C21: what is posted carries as many primitives as were given, for every
\* tier; for the observer tier each posted primitive has exactly the fields
\* risk_domain (the first segment of the risk vector), signal_level (high
\* above 0.7, medium above 0.4, low otherwise), time_horizon and
\* delayed_by_hours = 24, so the full risk vector, contributing_domains,
\* likely_outcomes and tradability are not in it; and any other list that
\* agrees with the given one position by position on domain segment,
\* confidence bucket and horizon would have been posted as the same
\* primitives.
C21_ObserverSeesOnlyTheHeatmap ==
    wResult # NotCalled =>
        /\ Len(wPosts[1].primitives) = Len(wPrimitives)
        /\ wTier = "observer" =>
              /\ \A i \in 1..Len(wPrimitives) :
                    LET p == wPrimitives[i]
                        o == wPosts[1].primitives[i]
                    IN /\ DOMAIN o = {"risk_domain", "signal_level", "time_horizon",
                                      "delayed_by_hours"}
                       /\ o.risk_domain = p.risk_vector[1]
                       /\ o.signal_level =
                             (IF p.signal_confidence > Literals[70] THEN "high"
                              ELSE IF p.signal_confidence > Literals[40] THEN "medium"
                              ELSE "low")
                       /\ o.time_horizon = p.time_horizon_days
                       /\ o.delayed_by_hours = 24
              /\ \A qs \in [1..Len(wPrimitives) -> PrimitiveDicts] :
                    AgreeForObserver(wPrimitives, qs) =>
                        FilterByTier("observer", qs) = wPosts[1].primitives

\* C21 witness: the observer tier was sent two primitives that differ from
\* another pair only in what the tier may not see.
C21_Witness ==
    /\ wResult # NotCalled
    /\ wTier = "observer"
    /\ Len(wPrimitives) = 2
    /\ wPrimitives[1].risk_vector = <<"labor", "union">>
    /\ wPrimitives[1].signal_confidence = Literals[45]
    /\ wPrimitives[2].signal_confidence = Literals[85]
    /\ \E qs \in [1..2 -> PrimitiveDicts] :
          /\ qs # wPrimitives
          /\ qs[1].tradability # wPrimitives[1].tradability
          /\ qs[1].signal_confidence # wPrimitives[1].signal_confidence
          /\ AgreeForObserver(wPrimitives, qs)

----------------------------------------------------------------------------
(* Local Opportunity Radar: LOR_Engine.calculate_eligibility and           *)
(* generate_daily_report.  Dictionaries are functions of their keys, so a  *)
(* key that is left out is left out of the domain; skills and pay strings  *)
(* are sequences of characters; scores are floats of the fine format.      *)

\* Bounds: required skills of an opportunity, opportunities of one report.
MaxReqSkills == 2
MaxOpps == 8

\* eligible_list[:7]
ReportLimit == 7

Districts == {EmptyDict, [district |-> "Kupwara"], [district |-> "All"]}

\* The skills a profile or an opportunity names.
SkillNames == {<<"p", "y">>, <<"X", "L">>}

ProfileSkills ==
    {EmptyDict, [skills |-> << <<"P", "y">> >>],
     [skills |-> << <<"P", "y">>, <<"x", "l">> >>]}

\* The profile's hide_ineligible: unset, true, false.
HideChoices == {EmptyDict, [hide_ineligible |-> TRUE], [hide_ineligible |-> FALSE]}

\* Profiles with a district, skills, hide_ineligible, an age and an
\* education from the given sets.
ProfilesOf(ds, ks, hs, ages, es) ==
    {d @@ k @@ h @@ [age |-> a, education |-> e] :
        d \in ds, k \in ks, h \in hs, a \in ages, e \in es}

\* default_profile of _load_profile
DefaultProfile ==
    [name |-> "syer", district |-> "Kupwara", education |-> "Graduate", age |-> 24,
     skills |-> << <<"p", "y">> >>, category |-> "General"]

ReqSkillLists == UNION {[1..n -> SkillNames] : n \in 0..MaxReqSkills}

ActionNeeded == "Action Needed"

\* The keys every opportunity of the mock database has.
OppBase(title, pay) ==
    [title |-> title, location |-> "Handwara", pay |-> pay, deadline |-> "2026-02-15"]

\* Opportunities with a district, max_age, min_education, required_skills
\* and "Action Needed" from the given sets.
OpportunitiesOf(ds, ms, es, ks, ns) ==
    {d @@ m @@ e @@ k @@ n @@ OppBase("NGO Field Enumerator", <<"R", "1", "2", ",", "0">>) :
        d \in ds, m \in ms, e \in es, k \in ks, n \in ns}

ActionChoices == {EmptyDict, (ActionNeeded :> "Apply for domicile")}

\* Profile and opportunity of one call: every combination of districts, ages
\* and educations with one skill of two matched or none required, ...
FilterCases ==
    ProfilesOf(Districts, {[skills |-> << <<"P", "y">> >>]}, HideChoices,
               {24, 35, 45}, {"10th", "Graduate", "Diploma"})
    \X OpportunitiesOf(Districts \cup {[district |-> "Srinagar"]},
                       {EmptyDict, [max_age |-> 30]},
                       {EmptyDict, [min_education |-> "Graduate"],
                        [min_education |-> "Diploma"]},
                       {EmptyDict, [required_skills |-> << <<"p", "y">>, <<"X", "L">> >>]},
                       ActionChoices)

\* ... and every combination of skills for a profile of the district.
ScoreCases ==
    ProfilesOf({[district |-> "Kupwara"]}, ProfileSkills, HideChoices,
               {24, 35}, {"Graduate"})
    \X OpportunitiesOf({EmptyDict}, {EmptyDict, [max_age |-> 30]}, {EmptyDict},
                       {EmptyDict} \cup {[required_skills |-> r] : r \in ReqSkillLists},
                       ActionChoices)

\* The opportunities of a report: pay 5,0 then pay 12,0 per month, both
\* eligible for the default profile, and one for another district.
ReportOpps ==
    {OppBase("Clerk", <<"R", "5", ",", "0">>),
     OppBase("Enumerator", <<"R", "1", "2", ",", "0", "/", "m">>),
     [district |-> "Srinagar"] @@ OppBase("Driver", <<"R", "9", ",", "0">>)}

OppLists == UNION {[1..n -> ReportOpps] : n \in 0..MaxOpps}

\* Python's None as a result.
Nothing == [is_none |-> TRUE]

\* Mutant: the age filter is left out.
HardFiltersNoAge(profile, opportunity) ==
    LET user_dist == Get(profile, "district", "All")
        opp_dist == Get(opportunity, "district", "All")
        edu_rank == [e \in {"10th", "12th", "Graduate", "Post-Graduate"} |->
                        CASE e = "10th" -> 1 [] e = "12th" -> 2
                          [] e = "Graduate" -> 3 [] OTHER -> 4]
    IN /\ ~(user_dist # "All" /\ opp_dist # user_dist /\ opp_dist # "All")
       /\ ~(Get(edu_rank, profile.education, 0)
               < Get(edu_rank, Get(opportunity, "min_education", "10th"), 0))

\* calculate_eligibility, lines 34-49: TRUE when no hard filter returns None.
HardFilters(profile, opportunity) ==
    LET user_dist == Get(profile, "district", "All")
        opp_dist == Get(opportunity, "district", "All")
        edu_rank == [e \in {"10th", "12th", "Graduate", "Post-Graduate"} |->
                        CASE e = "10th" -> 1 [] e = "12th" -> 2
                          [] e = "Graduate" -> 3 [] OTHER -> 4]
    IN /\ ~(user_dist # "All" /\ opp_dist # user_dist /\ opp_dist # "All")
       /\ ~(profile.age > Get(opportunity, "max_age", 40))
       /\ ~(Get(edu_rank, profile.education, 0)
               < Get(edu_rank, Get(opportunity, "min_education", "10th"), 0))

\* sum(1 for s in req_skills if s.lower() in [p.lower() for p in skills])
MatchCount(profile, req_skills) ==
    LET skills == Get(profile, "skills", <<>>)
    IN Cardinality({i \in 1..Len(req_skills) :
            \E j \in 1..Len(skills) : LowerText(req_skills[i]) = LowerText(skills[j])})

\* match_count / len(req_skills): the float nearest to the quotient.
FineDiv(a, b) ==
    LET q == (a * FineOne) \div b
        rem == (a * FineOne) % b
        up == 2 * rem > b \/ (2 * rem = b /\ q % 2 = 1)
    IN FineRound(IF up THEN q + 1 ELSE q, 0)

\* Mutant: a missing skill costs the whole score, not half of it.
EligibilityScoreNoFloor(profile, opportunity) ==
    LET req_skills == Get(opportunity, "required_skills", <<>>)
        skilled == IF req_skills # <<>>
                   THEN FineMul(FineOne, FineDiv(MatchCount(profile, req_skills),
                                                 Len(req_skills)))
                   ELSE FineOne
    IN IF ActionNeeded \in DOMAIN opportunity
       THEN FineMul(skilled, Literals[80]) ELSE skilled

\* calculate_eligibility, lines 30 and 51-62: the score before rounding.
EligibilityScore(profile, opportunity) ==
    LET req_skills == Get(opportunity, "required_skills", <<>>)
        skilled == IF req_skills # <<>>
                   THEN FineMul(FineOne,
                            FineAdd(Half,
                                FineMul(Half, FineDiv(MatchCount(profile, req_skills),
                                                      Len(req_skills)))))
                   ELSE FineOne
    IN IF ActionNeeded \in DOMAIN opportunity
       THEN FineMul(skilled, Literals[80]) ELSE skilled

\* The dictionary calculate_eligibility returns; the status is kept without
\* the sign in front of it.
EligibilityResult(opportunity, status, score) ==
    [is_none |-> FALSE,
     title |-> opportunity.title, location |-> opportunity.location,
     pay |-> opportunity.pay, deadline |-> opportunity.deadline,
     status |-> status,
     reasons |-> IF ActionNeeded \in DOMAIN opportunity
                 THEN <<opportunity[ActionNeeded]>> ELSE <<>>,
     score |-> Round2(score),
     confidence |-> IF score > Literals[80] THEN "High" ELSE "Medium"]

\* Mutant: a low match is returned whatever hide_ineligible says.
CalculateEligibilityShowsAll(profile, opportunity) ==
    LET score == EligibilityScore(profile, opportunity)
    IN IF ~HardFilters(profile, opportunity) THEN Nothing
       ELSE IF score < Literals[65]
       THEN EligibilityResult(opportunity, "Low Match", score)
       ELSE EligibilityResult(opportunity,
                IF ActionNeeded \in DOMAIN opportunity THEN "Borderline" ELSE "Eligible",
                score)

\* calculate_eligibility(opportunity)
CalculateEligibility(profile, opportunity) ==
    LET score == EligibilityScore(profile, opportunity)
    IN IF ~HardFilters(profile, opportunity) THEN Nothing
       ELSE IF score < Literals[65]
       THEN IF Get(profile, "hide_ineligible", TRUE) THEN Nothing
            ELSE EligibilityResult(opportunity, "Low Match", score)
       ELSE EligibilityResult(opportunity,
                IF ActionNeeded \in DOMAIN opportunity THEN "Borderline" ELSE "Eligible",
                score)

Digits == <<"0", "1", "2", "3", "4", "5", "6", "7", "8", "9">>

RECURSIVE DigitsValue(_, _)
\* int(re.sub(r'[^\d]', '', pay)): the number its digits spell, read after acc.
DigitsValue(pay, acc) ==
    IF pay = <<>> THEN acc
    ELSE IF InSeq(Head(pay), Digits)
    THEN DigitsValue(Tail(pay),
            10 * acc + (CHOOSE d \in 0..9 : Digits[d + 1] = Head(pay)))
    ELSE DigitsValue(Tail(pay), acc)

\* get_pay_val(x): the module imports yaml, os, json and datetime; the name re
\* is bound nowhere, so re.sub raises NameError inside the try statement and
\* the bare except returns 0.
GetPayVal(x) == 0

RECURSIVE InsertByKey(_, _)
\* x put into a list sorted by key, largest first, after its equals.
InsertByKey(x, sorted) ==
    IF sorted = <<>> THEN <<x>>
    ELSE IF GetPayVal(x) > GetPayVal(Head(sorted)) THEN <<x>> \o sorted
    ELSE <<Head(sorted)>> \o InsertByKey(x, Tail(sorted))

RECURSIVE SortedByPay(_)
\* eligible_list.sort(key=get_pay_val, reverse=True): a stable sort.
SortedByPay(list) ==
    IF list = <<>> THEN <<>>
    ELSE InsertByKey(list[Len(list)], SortedByPay(SubSeq(list, 1, Len(list) - 1)))

\* for opp in opportunities: res = calculate_eligibility(opp); if res: append
EligibleList(profile, opportunities) ==
    SelectSeq([i \in 1..Len(opportunities) |->
                  CalculateEligibility(profile, opportunities[i])],
              LAMBDA res : res # Nothing)

\* eligible_list[:7]
Listed(eligible_list) == SubSeq(eligible_list, 1, Min(ReportLimit, Len(eligible_list)))

\* generate_daily_report(opportunities): what it returns, or the KeyError of
\* self.profile['district'].
DailyReport(profile, opportunities) ==
    LET eligible_list == SortedByPay(EligibleList(profile, opportunities))
    IN IF "district" \notin DOMAIN profile
       THEN [called |-> TRUE, raised |-> "KeyError"]
       ELSE [called |-> TRUE, raised |-> "no",
             district |-> profile.district,
             none_found |-> eligible_list = <<>>,
             listed |-> IF eligible_list = <<>> THEN <<>> ELSE Listed(eligible_list)]

LorIdle ==
    /\ lProfile = DefaultProfile
    /\ lOpp = OppBase("Clerk", <<"R", "5", ",", "0">>)
    /\ lOpps = <<>>
    /\ lResult = NotCalled
    /\ lReport = NotCalled

LorFrame ==
    UNCHANGED <<now, guardVars, pubVars, harvVars, accVars, memVars,
                pipeVars, normVars, orchVars, pairVars, allVars, storeVars,
                typeVars, sigVars, foreVars, stageVars, webVars, scanVars,
                spotVars, tvVars>>

\* engine.calculate_eligibility(opportunity)
DoCalculateEligibility ==
    /\ lResult = NotCalled
    /\ lResult' = [called |-> TRUE, value |-> CalculateEligibility(lProfile, lOpp)]
    /\ UNCHANGED <<lProfile, lOpp, lOpps, lReport>>
    /\ LorFrame

\* engine.generate_daily_report(opportunities)
GenerateDailyReport ==
    /\ lReport = NotCalled
    /\ lReport' = DailyReport(lProfile, lOpps)
    /\ UNCHANGED <<lProfile, lOpp, lOpps, lResult>>
    /\ LorFrame

LorNext ==
    \/ DoCalculateEligibility
    \/ GenerateDailyReport

\* The education rank of the claim: unknown levels rank 0.
EduRank(e) ==
    CASE e = "10th" -> 1 [] e = "12th" -> 2 [] e = "Graduate" -> 3
      [] e = "Post-Graduate" -> 4 [] OTHER -> 0

DistrictPasses ==
    \/ Get(lProfile, "district", "All") = Get(lOpp, "district", "All")
    \/ Get(lProfile, "district", "All") = "All"
    \/ Get(lOpp, "district", "All") = "All"

AgePasses == lProfile.age <= Get(lOpp, "max_age", 40)

EducationPasses ==
    EduRank(lProfile.education) >= EduRank(Get(lOpp, "min_education", "10th"))

\* C22: calculate_eligibility returns a result only if the district filter
\* (equal districts, or either one "All"), the age filter (age at most
\* max_age, 40 when not given) and the education filter (rank at least the
\* required rank, 10th when not given, unknown levels ranking 0) all pass;
\* if any of them fails it returns None.
C22_HardFilters ==
    lResult # NotCalled =>
        /\ lResult.value # Nothing =>
              DistrictPasses /\ AgePasses /\ EducationPasses
        /\ ~(DistrictPasses /\ AgePasses /\ EducationPasses) =>
              lResult.value = Nothing

\* C22 witness: None was returned to a profile that passes the district and
\* education filters and is older than the opportunity's max_age.
C22_Witness ==
    /\ lResult # NotCalled
    /\ lResult.value = Nothing
    /\ "district" \in DOMAIN lProfile /\ lProfile.district = "Kupwara"
    /\ "district" \in DOMAIN lOpp /\ lOpp.district = "Kupwara"
    /\ "min_education" \in DOMAIN lOpp /\ EducationPasses
    /\ "max_age" \in DOMAIN lOpp /\ lProfile.age > lOpp.max_age
    /\ EligibilityScore(lProfile, lOpp) = FineOne

\* C23: with hide_ineligible unset or true every result returned has an
\* unrounded score of at least 0.65 and status Eligible or Borderline; Low
\* Match is returned only when hide_ineligible is false and the score is
\* below 0.65; the status is Borderline exactly when the opportunity has an
\* "Action Needed" field and the score is at least 0.65.
C23_StatusAndThreshold ==
    (lResult # NotCalled /\ lResult.value # Nothing) =>
        LET score == EligibilityScore(lProfile, lOpp)
            status == lResult.value.status
            hide == Get(lProfile, "hide_ineligible", TRUE)
        IN /\ hide => (score >= Literals[65] /\ status \in {"Eligible", "Borderline"})
           /\ status = "Low Match" => (~hide /\ score < Literals[65])
           /\ status = "Borderline" <=>
                 (ActionNeeded \in DOMAIN lOpp /\ score >= Literals[65])

\* C23 witness: a Low Match was returned for an opportunity with an "Action
\* Needed" field to a profile whose hide_ineligible is false.
C23_Witness ==
    /\ lResult # NotCalled
    /\ lResult.value # Nothing
    /\ lResult.value.status = "Low Match"
    /\ ActionNeeded \in DOMAIN lOpp
    /\ "hide_ineligible" \in DOMAIN lProfile

\* The opportunity with other required skills, and with or without the
\* "Action Needed" field.
WithSkills(opportunity, r) == [required_skills |-> r] @@ opportunity

WithoutAction(opportunity) ==
    [k \in DOMAIN opportunity \ {ActionNeeded} |-> opportunity[k]]

\* C24: the score is (0.5 + 0.5 * matched/required when skills are required,
\* else 1) times (0.8 when "Action Needed" is present, else 1); it lies in
\* [0.4, 1.0]; an opportunity of which the profile matches at least as many
\* of as many required skills, case-insensitively, scores at least as high;
\* and the same opportunity without "Action Needed" scores at least as high.
C24_ScoreFormula ==
    lResult # NotCalled =>
        LET score == EligibilityScore(lProfile, lOpp)
            required == Get(lOpp, "required_skills", <<>>)
            skills == Get(lProfile, "skills", <<>>)
            matched == Cardinality({i \in 1..Len(required) :
                          \E j \in 1..Len(skills) :
                              LowerText(required[i]) = LowerText(skills[j])})
            factor == IF Len(required) > 0
                      THEN FineAdd(Half, FineMul(Half, FineDiv(matched, Len(required))))
                      ELSE FineOne
        IN /\ score = FineMul(factor, IF ActionNeeded \in DOMAIN lOpp
                                      THEN Literals[80] ELSE FineOne)
           /\ Literals[40] <= score /\ score <= FineOne
           /\ \A r \in [1..Len(required) -> SkillNames] :
                 MatchCount(lProfile, r) >= matched =>
                     EligibilityScore(lProfile, WithSkills(lOpp, r)) >= score
           /\ EligibilityScore(lProfile, WithoutAction(lOpp)) >= score

\* C24 witness: the profile matches one of two required skills, in another
\* case of letters, of an opportunity with "Action Needed"; the score is at
\* neither end of its range.
C24_Witness ==
    /\ lResult # NotCalled
    /\ "required_skills" \in DOMAIN lOpp
    /\ Len(lOpp.required_skills) = 2
    /\ MatchCount(lProfile, lOpp.required_skills) = 1
    /\ lOpp.required_skills[1] = <<"p", "y">>
    /\ ActionNeeded \in DOMAIN lOpp
    /\ EligibilityScore(lProfile, lOpp) > Literals[40]
    /\ EligibilityScore(lProfile, lOpp) < Literals[80]

\* C25: generate_daily_report lists the eligible opportunities in descending
\* order of the number extracted from the pay string, at most the first 7 of
\* them, and reports that none was found when no opportunity is eligible.
C25_SortedByPay ==
    (lReport # NotCalled /\ lReport.raised = "no") =>
        /\ Len(lReport.listed) <= ReportLimit
        /\ Len(lReport.listed) <= Len(EligibleList(lProfile, lOpps))
        /\ lReport.none_found <=> EligibleList(lProfile, lOpps) = <<>>
        /\ \A i \in 1..Len(lReport.listed) : \A j \in 1..Len(lReport.listed) :
              i < j => DigitsValue(lReport.listed[i].pay, 0)
                          >= DigitsValue(lReport.listed[j].pay, 0)

----------------------------------------------------------------------------
(* Local Opportunity Radar: MultiSourceScanner.run_full_scan.  Titles are  *)
(* sequences of characters; a date is a day number; a pubDate text is      *)
(* None, the empty string, or a date written with a zone.                  *)

\* Bound: the items the eight queries fetch together.
MaxItems == 3

\* [:50]
KeyLimit == 50

\* datetime.now() when the scanner is made, and max_age_days of main.
ScanDay == 100
MaxAgeDays == 60

\* self.cutoff_date = datetime.now() - timedelta(days=max_age_days)
CutoffDate == ScanDay - MaxAgeDays

\* Two titles of 51 letters that differ in the last one only.
LongTitle(last) == [i \in 1..(KeyLimit + 1) |-> IF i <= KeyLimit THEN "a" ELSE last]

\* pubDate texts: a date with the zone name GMT, which strptime's %Z reads,
\* or with the offset +0000, which it does not.
RfcDate(day, zone) == [kind |-> "rfc", day |-> day, zone |-> zone]

NewsItem(title, pub_date) ==
    [title |-> title, pub_date |-> pub_date, source |-> "Google News",
     query |-> "JKSSB Constable"]

ScanItems ==
    {NewsItem(<<"J", "K", " ", "-", " ", "S", "I">>, RfcDate(70, "GMT")),
     NewsItem(<<"j", "k", "s", "i", "!">>, RfcDate(10, "GMT")),
     NewsItem(<<"J", "K", " ", "-", " ", "S", "I">>, [kind |-> "None"]),
     NewsItem(<<"J", "a", "m", "m", "u", " ", ":", "0", "7">>, RfcDate(70, "GMT")),
     NewsItem(<<"J", "a", "m", "m", "u", " ", ":", "0", "7">>, RfcDate(10, "+0000")),
     NewsItem(LongTitle("b"), RfcDate(39, "GMT")),
     NewsItem(LongTitle("c"), [kind |-> "empty"]),
     NewsItem(<<"?", "!">>, RfcDate(40, "UTC"))}

ItemLists == UNION {[1..n -> ScanItems] : n \in 0..MaxItems}

\* [a-zA-Z0-9]
IsAlnum(c) == InSeq(c, LowerCase) \/ InSeq(c, UpperCase) \/ InSeq(c, Digits)

\* Mutant: the whole normalized title is the key.
TitleKeyWhole(title) == SelectSeq(LowerText(title), IsAlnum)

\* norm_title = re.sub(r'[^a-zA-Z0-9]', '', item['title'].lower())[:50]
TitleKey(title) ==
    LET kept == SelectSeq(LowerText(title), IsAlnum)
    IN SubSeq(kept, 1, Min(KeyLimit, Len(kept)))

RECURSIVE DeduplicateFrom(_, _, _)
\* The loop of deduplicate, with seen_titles and unique as they stand.
DeduplicateFrom(items, seen_titles, unique) ==
    IF items = <<>> THEN unique
    ELSE IF TitleKey(Head(items).title) \notin seen_titles
    THEN DeduplicateFrom(Tail(items), seen_titles \cup {TitleKey(Head(items).title)},
                         Append(unique, Head(items)))
    ELSE DeduplicateFrom(Tail(items), seen_titles, unique)

\* deduplicate(items)
Deduplicate(items) == DeduplicateFrom(items, {}, <<>>)

\* datetime.strptime(text, "%a, %d %b %Y %H:%M:%S %Z"): the date without its
\* zone, or ValueError.
Strptime(pub_date) ==
    IF pub_date.zone \in {"GMT", "UTC"}
    THEN [ok |-> TRUE, day |-> pub_date.day]
    ELSE [ok |-> FALSE]

\* Mutant: an item whose date does not parse is left out.
KeptByDateParsedOnly(item) ==
    IF item.pub_date.kind \in {"None", "empty"} THEN TRUE
    ELSE IF Strptime(item.pub_date).ok
    THEN Strptime(item.pub_date).day >= CutoffDate
    ELSE FALSE

\* The body of the loop of filter_by_date: TRUE when the item is appended.
KeptByDate(item) ==
    IF item.pub_date.kind \in {"None", "empty"} THEN TRUE
    ELSE IF Strptime(item.pub_date).ok
    THEN Strptime(item.pub_date).day >= CutoffDate
    ELSE TRUE

\* filter_by_date(items)
FilterByDate(items) == SelectSeq(items, KeptByDate)

\* text.split(sep)[0]
BeforeFirst(sep, text) ==
    IF Contains(sep, text)
    THEN SubSeq(text, 1,
            CHOOSE s \in 0..(Len(text) - Len(sep)) :
                /\ \A k \in 1..Len(sep) : text[s + k] = sep[k]
                /\ \A r \in 0..(s - 1) : \E k \in 1..Len(sep) : text[r + k] # sep[k])
    ELSE text

RECURSIVE Strip(_)
\* text.strip()
Strip(text) ==
    IF text = <<>> THEN text
    ELSE IF Head(text) = " " THEN Strip(Tail(text))
    ELSE IF text[Len(text)] = " " THEN Strip(SubSeq(text, 1, Len(text) - 1))
    ELSE text

DISTRICTS ==
    <<<<"S", "r", "i", "n", "a", "g", "a", "r">>,
      <<"K", "u", "p", "w", "a", "r", "a">>,
      <<"B", "a", "r", "a", "m", "u", "l", "l", "a">>,
      <<"A", "n", "a", "n", "t", "n", "a", "g">>,
      <<"B", "u", "d", "g", "a", "m">>,
      <<"P", "u", "l", "w", "a", "m", "a">>,
      <<"S", "h", "o", "p", "i", "a", "n">>,
      <<"K", "u", "l", "g", "a", "m">>,
      <<"G", "a", "n", "d", "e", "r", "b", "a", "l">>,
      <<"B", "a", "n", "d", "i", "p", "o", "r", "a">>,
      <<"J", "a", "m", "m", "u">>,
      <<"U", "d", "h", "a", "m", "p", "u", "r">>>>

\* The first district named in the title, or "All".
DistrictOf(title) ==
    IF \E i \in 1..Len(DISTRICTS) : Contains(LowerText(DISTRICTS[i]), LowerText(title))
    THEN DISTRICTS[CHOOSE i \in 1..Len(DISTRICTS) :
            /\ Contains(LowerText(DISTRICTS[i]), LowerText(title))
            /\ \A j \in 1..(i - 1) : ~Contains(LowerText(DISTRICTS[j]), LowerText(title))]
    ELSE <<"A", "l", "l">>

\* The opportunity made of one item; the vacancy count is left out.
OpportunityOf(item) ==
    [title |-> Strip(IF Contains(<<" ", "-", " ">>, item.title)
                     THEN BeforeFirst(<<" ", "-", " ">>, item.title)
                     ELSE BeforeFirst(<<":">>, item.title)),
     location |-> DistrictOf(item.title),
     district |-> DistrictOf(item.title),
     pay |-> "See notification",
     source |-> item.source,
     pub_date |-> item.pub_date,
     min_education |-> "Graduate",
     max_age |-> 40,
     deadline |-> "Check official site"]

\* extract_opportunities(items)
ExtractOpportunities(items) == [i \in 1..Len(items) |-> OpportunityOf(items[i])]

ScanIdle ==
    /\ scanPc = "start"
    /\ raw_items = <<>>
    /\ unique_items = <<>>
    /\ recent_items = <<>>
    /\ scanOpps = <<>>

ScanFrame ==
    UNCHANGED <<now, guardVars, pubVars, harvVars, accVars, memVars,
                pipeVars, normVars, orchVars, pairVars, allVars, storeVars,
                typeVars, sigVars, foreVars, stageVars, webVars, lorVars,
                spotVars, tvVars>>

\* raw_items = self.scan_all_queries()
ScanAllQueries ==
    /\ scanPc = "start"
    /\ \E items \in ItemLists : raw_items' = items
    /\ scanPc' = "scanned"
    /\ UNCHANGED <<unique_items, recent_items, scanOpps>>
    /\ ScanFrame

\* unique_items = self.deduplicate(raw_items)
DoDeduplicate ==
    /\ scanPc = "scanned"
    /\ unique_items' = Deduplicate(raw_items)
    /\ scanPc' = "unique"
    /\ UNCHANGED <<raw_items, recent_items, scanOpps>>
    /\ ScanFrame

\* recent_items = self.filter_by_date(unique_items)
DoFilterByDate ==
    /\ scanPc = "unique"
    /\ recent_items' = FilterByDate(unique_items)
    /\ scanPc' = "recent"
    /\ UNCHANGED <<raw_items, unique_items, scanOpps>>
    /\ ScanFrame

\* opportunities = self.extract_opportunities(recent_items); return
DoExtractOpportunities ==
    /\ scanPc = "recent"
    /\ scanOpps' = ExtractOpportunities(recent_items)
    /\ scanPc' = "done"
    /\ UNCHANGED <<raw_items, unique_items, recent_items>>
    /\ ScanFrame

ScanNext ==
    \/ ScanAllQueries
    \/ DoDeduplicate
    \/ DoFilterByDate
    \/ DoExtractOpportunities

\* The key of the claim: the lower-cased title without what is not a letter
\* or a digit, cut after 50 characters.
KeyOf(item) ==
    LET kept == SelectSeq(LowerText(item.title), IsAlnum)
    IN IF Len(kept) <= 50 THEN kept ELSE SubSeq(kept, 1, 50)

\* The places of list whose item is picked, in order, make up sub.
PickedInOrder(sub, list, picked) ==
    \E f \in [1..Len(sub) -> 1..Len(list)] :
        /\ \A k \in 1..Len(sub) : sub[k] = list[f[k]]
        /\ \A k \in 1..Len(sub) : \A m \in 1..Len(sub) : k < m => f[k] < f[m]
        /\ {f[k] : k \in 1..Len(sub)} = picked

\* C26: deduplicate keeps, for each key, exactly the first item that has it,
\* in the order of the input; no two items of the output have the same key;
\* and deduplicating the output again gives the output.
C26_FirstOfEachKey ==
    scanPc \in {"unique", "recent", "done"} =>
        /\ PickedInOrder(unique_items, raw_items,
              {i \in 1..Len(raw_items) :
                  \A j \in 1..(i - 1) : KeyOf(raw_items[j]) # KeyOf(raw_items[i])})
        /\ \A k \in 1..Len(unique_items) : \A m \in 1..Len(unique_items) :
              k # m => KeyOf(unique_items[k]) # KeyOf(unique_items[m])
        /\ Deduplicate(unique_items) = unique_items

\* C26 witness: of three items the first and the third were kept; the second
\* differs from the first after the fiftieth letter only.
C26_Witness ==
    /\ scanPc = "unique"
    /\ Len(raw_items) = 3
    /\ raw_items[1].title = LongTitle("b")
    /\ raw_items[2].title = LongTitle("c")
    /\ raw_items[3].title = <<"j", "k", "s", "i", "!">>
    /\ unique_items = <<raw_items[1], raw_items[3]>>

\* The item has a date that parses and lies before the cutoff.
ParsesAndOlder(item) ==
    /\ item.pub_date.kind = "rfc"
    /\ item.pub_date.zone \in {"GMT", "UTC"}
    /\ item.pub_date.day < ScanDay - MaxAgeDays

\* C27: filter_by_date drops exactly the items whose pub_date parses and is
\* older than the cutoff, so items without a pub_date or with one that does
\* not parse are kept, in the order they had; extract_opportunities then
\* yields one opportunity per kept item, in the same order.
C27_DropsOnlyOldDates ==
    /\ scanPc \in {"recent", "done"} =>
          PickedInOrder(recent_items, unique_items,
              {i \in 1..Len(unique_items) : ~ParsesAndOlder(unique_items[i])})
    /\ scanPc = "done" =>
          /\ Len(scanOpps) = Len(recent_items)
          /\ \A i \in 1..Len(recent_items) :
                /\ scanOpps[i].source = recent_items[i].source
                /\ scanOpps[i].pub_date = recent_items[i].pub_date
                /\ scanOpps[i] = OpportunityOf(recent_items[i])

\* C27 witness: of three unique items the one with an old date was dropped,
\* the one whose old date does not parse and the one dated on the cutoff day
\* were kept, and two opportunities were made.
C27_Witness ==
    /\ scanPc = "done"
    /\ Len(unique_items) = 3
    /\ unique_items[1].pub_date = RfcDate(10, "+0000")
    /\ unique_items[2].pub_date = RfcDate(10, "GMT")
    /\ unique_items[3].pub_date = RfcDate(40, "UTC")
    /\ recent_items = <<unique_items[1], unique_items[3]>>
    /\ Len(scanOpps) = 2
    /\ scanOpps[1].district = <<"J", "a", "m", "m", "u">>

----------------------------------------------------------------------------
(* Spotify Surface: one invocation of spotify_surface.py with a query.     *)
(* What the invocation does to the outside is kept as a trace of events:   *)
(* the POST for a token, the GET of the search, the metadata file written, *)
(* the lines printed.                                                      *)

\* Bound: the tracks of one search response.
MaxTrackItems == 2

\* The environment: both credentials, one of them, none, or an empty one.
SpotifyEnvs ==
    {[client_id |-> i, client_secret |-> k] :
        i \in {None, "", "id"}, k \in {None, "secret"}}

\* sys.argv[1] and sys.argv[2:], words as sequences of characters.
SpotifyArgs ==
    {[source |-> c, words |-> w] :
        c \in {"telegram", "whatsapp"},
        w \in {<< <<"u", "2">> >>, << <<"o", "n", "e">>, <<"u", "2">> >>}}

\* How the POST for a token can end: 200 with a token, 200 without the key,
\* 200 with a body that is not JSON, another status, an exception.
TokenResponses ==
    {[kind |-> "json", access_token |-> "tok"], [kind |-> "json", access_token |-> None],
     [kind |-> "bad_json"], [kind |-> "status_401"], [kind |-> "raised"]}

\* Track objects of the search API, with and without a preview.
TrackObjects ==
    {[id |-> i, name |-> "One", artists |-> <<[name |-> "U2"]>>,
      album |-> [name |-> "Achtung Baby"], duration_ms |-> 276000,
      external_urls |-> [spotify |-> <<"https://open.spotify.com/track/", i>>],
      preview_url |-> p] :
        i \in {"t1", "t2"}, p \in {None, "", "https://p.scdn.co/mp3-preview/1"}}

TrackLists == UNION {[1..n -> TrackObjects] : n \in 0..MaxTrackItems}

\* How the GET of the search can end: 200 with tracks.items, 200 with
\* "tracks": null, 200 without the key, 200 with a body that is not JSON,
\* another status, an exception.
SearchResponses ==
    {[kind |-> "items", items |-> l] : l \in TrackLists}
    \cup {[kind |-> "tracks_null"], [kind |-> "no_tracks_key"], [kind |-> "bad_json"],
          [kind |-> "status_401"], [kind |-> "raised"]}

\* _get_access_token after the credentials were found: the token it returns.
TokenFrom(resp) == IF resp.kind = "json" THEN resp.access_token ELSE None

\* search_track after the token was found: the track it returns.
TrackFrom(resp) ==
    IF resp.kind = "items" /\ resp.items # <<>> THEN resp.items[1] ELSE Nothing

\* persist_metadata: the metadata dictionary, without created_at.
MetadataOf(track, requested_from) ==
    [id |-> track.id, type |-> "spotify_track", title |-> track.name,
     artist |-> track.artists[1].name, album |-> track.album.name,
     duration_ms |-> track.duration_ms,
     spotify_url |-> track.external_urls.spotify,
     embed_url |-> <<"https://open.spotify.com/embed/track/", track.id>>,
     preview_url |-> track.preview_url,
     requested_from |-> requested_from]

\* Mutant: the chat output is a message whatever the metadata holds.
ChatOutputMessage(metadata) ==
    [type |-> "chat.message",
     text |-> <<metadata.title, metadata.artist, metadata.spotify_url>>]

\* emit_outputs: chat_output
ChatOutput(metadata) ==
    IF Truthy(metadata.preview_url)
    THEN [type |-> "chat.audio_preview", file_url |-> metadata.preview_url,
          caption |-> <<metadata.title, metadata.artist, metadata.spotify_url>>]
    ELSE [type |-> "chat.message",
          text |-> <<metadata.title, metadata.artist, metadata.spotify_url>>]

\* emit_outputs: webui_output
WebuiOutput(metadata) ==
    [type |-> "webui.media", media_kind |-> "spotify", track_id |-> metadata.id,
     title |-> metadata.title, artist |-> metadata.artist,
     embed_url |-> metadata.embed_url,
     controls |-> [play |-> TRUE, pause |-> TRUE, next |-> TRUE, volume |-> TRUE]]

\* The chat message of the else branch of __main__.
NoMatchOutput(query) ==
    [type |-> "chat.message", text |-> <<"No Spotify match found for: ", query>>]

SpotIdle ==
    /\ spEnv = [client_id |-> None, client_secret |-> None]
    /\ spArgs = [source |-> "telegram", words |-> << <<"u", "2">> >>]
    /\ spPc = "search_track"
    /\ access_token = None
    /\ spTrack = Nothing
    /\ spMetadata = Nothing
    /\ spTrace = <<>>

SpotFrame ==
    UNCHANGED <<now, guardVars, pubVars, harvVars, accVars, memVars,
                pipeVars, normVars, orchVars, pairVars, allVars, storeVars,
                typeVars, sigVars, foreVars, stageVars, webVars, lorVars,
                scanVars, tvVars>>

\* search_track, line 40: no token yet, so _get_access_token; without a
\* token the warning is printed and None returned.
GetAccessToken ==
    /\ spPc = "search_track"
    /\ \E resp \in TokenResponses :
          IF ~Truthy(spEnv.client_id) \/ ~Truthy(spEnv.client_secret)
          THEN /\ access_token' = access_token
               /\ spTrace' = Append(spTrace, [ev |-> "print", json |-> FALSE])
               /\ spPc' = "searched"
          ELSE /\ access_token' = TokenFrom(resp)
               /\ spTrace' = spTrace \o <<[ev |-> "post", resp |-> resp]>>
                    \o (IF resp.kind = "raised" THEN <<[ev |-> "stderr"]>> ELSE <<>>)
                    \o (IF Truthy(TokenFrom(resp)) THEN <<>>
                        ELSE <<[ev |-> "print", json |-> FALSE]>>)
               /\ spPc' = IF Truthy(TokenFrom(resp)) THEN "have_token" ELSE "searched"
    /\ UNCHANGED <<spEnv, spArgs, spTrack, spMetadata>>
    /\ SpotFrame

\* search_track, lines 44-56: the search request and what is made of it.
SearchTrack ==
    /\ spPc = "have_token"
    /\ \E resp \in SearchResponses :
          /\ spTrace' = spTrace \o <<[ev |-> "get", resp |-> resp, token |-> access_token]>>
                \o (IF resp.kind \in {"raised", "bad_json", "tracks_null"}
                    THEN <<[ev |-> "stderr"]>> ELSE <<>>)
          /\ spTrack' = TrackFrom(resp)
    /\ spPc' = "searched"
    /\ UNCHANGED <<spEnv, spArgs, access_token, spMetadata>>
    /\ SpotFrame

\* if track: metadata = surface.persist_metadata(track, source)
PersistMetadata ==
    /\ spPc = "searched"
    /\ spTrack # Nothing
    /\ spMetadata' = MetadataOf(spTrack, spArgs.source)
    /\ spTrace' = Append(spTrace, [ev |-> "write", file |-> spTrack.id,
                                   metadata |-> MetadataOf(spTrack, spArgs.source)])
    /\ spPc' = "persisted"
    /\ UNCHANGED <<spEnv, spArgs, access_token, spTrack>>
    /\ SpotFrame

\* surface.emit_outputs(metadata)
EmitOutputs ==
    /\ spPc = "persisted"
    /\ spTrace' = Append(spTrace,
            [ev |-> "print", json |-> TRUE,
             outputs |-> <<ChatOutput(spMetadata), WebuiOutput(spMetadata)>>])
    /\ spPc' = "exit"
    /\ UNCHANGED <<spEnv, spArgs, access_token, spTrack, spMetadata>>
    /\ SpotFrame

\* else: print(json.dumps({"outputs": [{"type": "chat.message", ...}]}))
NoMatch ==
    /\ spPc = "searched"
    /\ spTrack = Nothing
    /\ spTrace' = Append(spTrace,
            [ev |-> "print", json |-> TRUE,
             outputs |-> <<NoMatchOutput(JoinWords(spArgs.words))>>])
    /\ spPc' = "exit"
    /\ UNCHANGED <<spEnv, spArgs, access_token, spTrack, spMetadata>>
    /\ SpotFrame

SpotNext ==
    \/ GetAccessToken
    \/ SearchTrack
    \/ PersistMetadata
    \/ EmitOutputs
    \/ NoMatch

\* The places of the trace with an event of the kind.
EventsOf(ev) == {i \in 1..Len(spTrace) : spTrace[i].ev = ev}

JsonPrinted == {i \in EventsOf("print") : spTrace[i].json}

\* The search request was answered with at least one track.
TrackFound ==
    \E i \in EventsOf("get") :
        spTrace[i].resp.kind = "items" /\ Len(spTrace[i].resp.items) > 0

----------------------------------------------------------------------------
(* JioFiber TV controller: jio_controller.handle_command and the           *)
(* tv_control.py subprocess it starts.  Texts and words are sequences of   *)
(* characters.                                                             *)

\* Bound: the words after the first word of a command text.
MaxTvParams == 2

\* ADB keycodes
KEY_POWER == 26
KEY_PLAY_PAUSE == 85
KEY_UP == 19
KEY_DOWN == 20
KEY_LEFT == 21
KEY_RIGHT == 22
KEY_ENTER == 66
KEY_BACK == 4
KEY_HOME == 3
KEY_VOLUP == 24
KEY_VOLDOWN == 25
KEY_MUTE == 164

FirstWords ==
    {<<"t", "v", ".", "p", "o", "w", "e", "r">>,
     <<"t", "v", ".", "p", "l", "a", "y">>,
     <<"t", "v", ".", "u", "p">>,
     <<"t", "v", ".", "d", "o", "w", "n">>,
     <<"t", "v", ".", "l", "e", "f", "t">>,
     <<"t", "v", ".", "r", "i", "g", "h", "t">>,
     <<"t", "v", ".", "e", "n", "t", "e", "r">>,
     <<"t", "v", ".", "b", "a", "c", "k">>,
     <<"t", "v", ".", "h", "o", "m", "e">>,
     <<"t", "v", ".", "y", "t">>,
     <<"t", "v", ".", "v", "o", "l">>,
     <<"t", "v", ".", "c", "o", "n", "n", "e", "c", "t">>,
     <<"t", "v", ".", "z", "a", "p">>,
     <<"t", "v", ".">>,
     <<"T", "V", ".", "Y", "T">>,
     <<"T", "v", ".", "C", "o", "n", "n", "e", "c", "t">>,
     <<"h", "e", "l", "l", "o">>,
     <<"p", "o", "w", "e", "r">>}

ParamWords == {<<"1", "0", ".", "0", ".", "0", ".", "7">>, <<"D", "O", "W", "N">>, <<"u", "p">>, <<"m", "u", "t", "e">>}

\* The texts: nothing, blanks only, or a first word and up to MaxTvParams
\* more, with one blank between them and one in front.
TvTexts ==
    {<<>>, <<" ", " ">>}
    \cup {<<" ">> \o JoinWords(<<w>> \o ps) :
            w \in FirstWords, ps \in UNION {[1..n -> ParamWords] : n \in 0..MaxTvParams}}

\* How get_device ends: a device, None from client.device, an exception.
DeviceOutcomes == {"device", "none", "raised"}

RECURSIVE SplitFrom(_, _, _)
\* text.split(): the words, with the word being read and the words read.
SplitFrom(text, word, parts) ==
    IF text = <<>>
    THEN IF word = <<>> THEN parts ELSE Append(parts, word)
    ELSE IF Head(text) = " "
    THEN SplitFrom(Tail(text), <<>>, IF word = <<>> THEN parts ELSE Append(parts, word))
    ELSE SplitFrom(Tail(text), Append(word, Head(text)), parts)

Split(text) == SplitFrom(text, <<>>, <<>>)

\* s.startswith(prefix)
StartsWith(s, prefix) ==
    Len(s) >= Len(prefix) /\ SubSeq(s, 1, Len(prefix)) = prefix

TvPrefix == <<"t", "v", ".">>

\* handle_command(text) up to subprocess.run: the text returned, or the
\* arguments given to tv_control.py.
Handled(text, env) ==
    LET parts == Split(text)
        cmd == LowerText(parts[1])
        params == SubSeq(parts, 2, Len(parts))
        action == SubSeq(cmd, 4, Len(cmd))
    IN IF parts = <<>> THEN [reply |-> "No command provided.", run |-> FALSE]
       ELSE IF ~StartsWith(cmd, TvPrefix) THEN [reply |-> "Not a TV command.", run |-> FALSE]
       ELSE IF action = <<"c", "o", "n", "n", "e", "c", "t">> /\ params # <<>>
       THEN [reply |-> <<"Targeting TV at ", params[1]>>, run |-> FALSE]
       ELSE [run |-> TRUE,
             argv |-> <<IF env = None THEN "192.168.1.10" ELSE env, action>> \o params]

\* The actions sent as one key event each, with their keys.
KeyActions ==
    <<[action |-> <<"u", "p">>, key |-> KEY_UP],
      [action |-> <<"d", "o", "w", "n">>, key |-> KEY_DOWN],
      [action |-> <<"l", "e", "f", "t">>, key |-> KEY_LEFT],
      [action |-> <<"r", "i", "g", "h", "t">>, key |-> KEY_RIGHT],
      [action |-> <<"e", "n", "t", "e", "r">>, key |-> KEY_ENTER],
      [action |-> <<"b", "a", "c", "k">>, key |-> KEY_BACK],
      [action |-> <<"h", "o", "m", "e">>, key |-> KEY_HOME]>>

\* key = KEY_VOLUP if level == "up" else KEY_VOLDOWN if level == "down" else KEY_MUTE
VolumeKey(level) ==
    IF level = <<"u", "p">> THEN KEY_VOLUP
    ELSE IF level = <<"d", "o", "w", "n">> THEN KEY_VOLDOWN ELSE KEY_MUTE

\* Mutant: vol mutes before it sends its key.
ShellCommandsMuteFirst(action, params) ==
    IF action = <<"v", "o", "l">>
    THEN <<[cmd |-> "input keyevent", key |-> KEY_MUTE],
           [cmd |-> "input keyevent",
            key |-> VolumeKey(IF params # <<>> THEN LowerText(params) ELSE <<"u", "p">>)]>>
    ELSE IF \E i \in 1..Len(KeyActions) : KeyActions[i].action = action
    THEN <<[cmd |-> "input keyevent",
            key |-> KeyActions[CHOOSE i \in 1..Len(KeyActions) :
                        KeyActions[i].action = action].key]>>
    ELSE <<>>

\* control_tv after the device was obtained: the commands given to
\* device.shell; params is None (here the empty text) or the joined words.
ShellCommands(action, params) ==
    IF action = <<"p", "o", "w", "e", "r">> THEN <<[cmd |-> "input keyevent", key |-> KEY_POWER]>>
    ELSE IF action = <<"p", "l", "a", "y">> THEN <<[cmd |-> "input keyevent", key |-> KEY_PLAY_PAUSE]>>
    ELSE IF \E i \in 1..Len(KeyActions) : KeyActions[i].action = action
    THEN <<[cmd |-> "input keyevent",
            key |-> KeyActions[CHOOSE i \in 1..Len(KeyActions) :
                        KeyActions[i].action = action].key]>>
    ELSE IF action = <<"y", "t">>
    THEN <<[cmd |-> "am start -a android.intent.action.VIEW", query |-> params]>>
    ELSE IF action = <<"v", "o", "l">>
    THEN <<[cmd |-> "input keyevent",
            key |-> VolumeKey(IF params # <<>> THEN LowerText(params) ELSE <<"u", "p">>)]>>
    ELSE <<>>

\* control_tv(ip, action, params): the text returned.
ControlResult(ip, action, params, outcome) ==
    IF outcome # "device" THEN <<"Error: Could not connect to ", ip>>
    ELSE IF action = <<"p", "o", "w", "e", "r">> THEN <<"Toggled Power">>
    ELSE IF action = <<"p", "l", "a", "y">> THEN <<"Toggled Play/Pause">>
    ELSE IF \E i \in 1..Len(KeyActions) : KeyActions[i].action = action
    THEN <<"Sent ", action>>
    ELSE IF action = <<"y", "t">> THEN <<"Searching YouTube for: ", params>>
    ELSE IF action = <<"v", "o", "l">>
    THEN <<"Volume ", IF params # <<>> THEN LowerText(params) ELSE <<"u", "p">>>>
    ELSE <<"Unknown action: ", action>>

TvIdle ==
    /\ tvText = <<>>
    /\ tvEnv = None
    /\ tvArgv = NotCalled
    /\ tvDevice = "not_asked"
    /\ tvShell = <<>>
    /\ tvReply = NotCalled

TvFrame ==
    UNCHANGED <<now, guardVars, pubVars, harvVars, accVars, memVars, pipeVars,
                normVars, orchVars, pairVars, allVars, storeVars, typeVars,
                sigVars, foreVars, stageVars, webVars, lorVars, scanVars, spotVars>>

\* handle_command(text), lines 10-33: a text is returned or the subprocess
\* is started.
HandleCommand ==
    /\ tvReply = NotCalled
    /\ tvArgv = NotCalled
    /\ LET h == Handled(tvText, tvEnv)
       IN IF h.run
          THEN /\ tvArgv' = [called |-> TRUE, argv |-> h.argv]
               /\ tvReply' = tvReply
          ELSE /\ tvArgv' = tvArgv
               /\ tvReply' = [called |-> TRUE, text |-> h.reply]
    /\ UNCHANGED <<tvText, tvEnv, tvDevice, tvShell>>
    /\ TvFrame

\* The subprocess: tv_control.py <ip> <action> [params] prints what
\* control_tv returns, and handle_command returns what was printed.
RunTvControl ==
    /\ tvArgv # NotCalled
    /\ tvReply = NotCalled
    /\ \E outcome \in DeviceOutcomes :
          LET ip == tvArgv.argv[1]
              action == tvArgv.argv[2]
              params == JoinWords(SubSeq(tvArgv.argv, 3, Len(tvArgv.argv)))
          IN /\ tvDevice' = outcome
             /\ tvShell' = IF outcome = "device"
                           THEN tvShell \o ShellCommands(action, params) ELSE tvShell
             /\ tvReply' = [called |-> TRUE,
                            text |-> (IF outcome = "raised"
                                      THEN <<"Connection failed: ">> ELSE <<>>)
                                     \o ControlResult(ip, action, params, outcome)]
    /\ UNCHANGED <<tvText, tvEnv, tvArgv>>
    /\ TvFrame

TvNext ==
    \/ HandleCommand
    \/ RunTvControl

\* The actions control_tv knows.
Recognised ==
    {<<"p", "o", "w", "e", "r">>,
     <<"p", "l", "a", "y">>,
     <<"u", "p">>,
     <<"d", "o", "w", "n">>,
     <<"l", "e", "f", "t">>,
     <<"r", "i", "g", "h", "t">>,
     <<"e", "n", "t", "e", "r">>,
     <<"b", "a", "c", "k">>,
     <<"h", "o", "m", "e">>,
     <<"y", "t">>,
     <<"v", "o", "l">>}

\* The words of the text as typed.
Typed == Split(tvText)

\* What the claim says of control_tv: at most one command is ever sent; a
\* subprocess that has ended sent exactly one when the device was obtained
\* and the action is one of the eleven, and otherwise none, returning an
\* error text.
OneCommandPerAction ==
    /\ Len(tvShell) <= 1
    /\ (tvArgv # NotCalled /\ tvReply # NotCalled) =>
          IF tvDevice = "device" /\ tvArgv.argv[2] \in Recognised
          THEN Len(tvShell) = 1
          ELSE /\ tvShell = <<>>
               /\ \/ /\ tvDevice # "device"
                     /\ tvReply.text[Len(tvReply.text) - 1] = "Error: Could not connect to "
                  \/ /\ tvDevice = "device"
                     /\ tvReply.text = <<"Unknown action: ", tvArgv.argv[2]>>

\* C29 as stated: control_tv as above, and the subprocess is started only
\* for a text whose first word begins with "tv.", and not for "tv.connect"
\* followed by an address.
C29_Original ==
    /\ OneCommandPerAction
    /\ tvArgv # NotCalled =>
          /\ Typed # <<>>
          /\ StartsWith(Typed[1], TvPrefix)
          /\ ~(Typed[1] = <<"t", "v", ".", "c", "o", "n", "n", "e", "c", "t">> /\ Len(Typed) > 1)

\* C29 amended: control_tv as above, and the subprocess is started only for
\* a text whose first word, lower-cased, begins with "tv.", and not when
\* that word is "tv.connect" and another word follows.
C29_LowerCasedPrefix ==
    /\ OneCommandPerAction
    /\ tvArgv # NotCalled =>
          /\ Typed # <<>>
          /\ StartsWith(LowerText(Typed[1]), TvPrefix)
          /\ ~(LowerText(Typed[1]) = <<"t", "v", ".", "c", "o", "n", "n", "e", "c", "t">> /\ Len(Typed) > 1)

\* C29 witness: "TV.YT" with two more words started the subprocess, which
\* obtained the device and sent one command.
C29_Witness ==
    /\ tvReply # NotCalled
    /\ tvArgv # NotCalled
    /\ Len(Typed) = 3
    /\ Typed[1] = <<"T", "V", ".", "Y", "T">>
    /\ tvDevice = "device"
    /\ Len(tvShell) = 1
    /\ tvShell[1].query = JoinWords(<<Typed[2], Typed[3]>>)

----------------------------------------------------------------------------
(* The specifications: one per skill, the other skills idle.               *)

GuardInit ==
    /\ now = StartTime
    /\ GuardIdle /\ PubIdle /\ HarvIdle /\ AccIdle /\ MemIdle
    /\ PipeIdle /\ NormIdle /\ OrchIdle /\ PairIdle /\ AllIdle
    /\ StoreIdle /\ TypeIdle /\ SigIdle /\ ForeIdle
    /\ StageIdle /\ WebIdle /\ LorIdle /\ ScanIdle /\ SpotIdle
    /\ TvIdle
SpecGuard == GuardInit /\ [][GuardNext]_vars

PubInit ==
    /\ now = StartTime
    /\ GuardIdle /\ PubIdle /\ HarvIdle /\ AccIdle /\ MemIdle
    /\ PipeIdle /\ NormIdle /\ OrchIdle /\ PairIdle /\ AllIdle
    /\ StoreIdle /\ TypeIdle /\ SigIdle /\ ForeIdle
    /\ StageIdle /\ WebIdle /\ LorIdle /\ ScanIdle /\ SpotIdle
    /\ TvIdle
SpecPublish == PubInit /\ [][PubNext]_vars

HarvInit ==
    /\ now = StartTime
    /\ GuardIdle /\ PubIdle /\ AccIdle /\ MemIdle /\ PipeIdle
    /\ NormIdle /\ OrchIdle /\ PairIdle /\ AllIdle /\ StoreIdle
    /\ TypeIdle /\ SigIdle /\ ForeIdle /\ StageIdle /\ WebIdle
    /\ LorIdle /\ ScanIdle /\ SpotIdle /\ TvIdle
    /\ hOp \in FetchOps
    /\ hResponse \in Responses(hOp)
    /\ hResult = NotCalled
SpecHarvest == HarvInit /\ [][HarvNext]_vars

AccInit ==
    /\ now = StartTime
    /\ GuardIdle /\ PubIdle /\ HarvIdle /\ AccIdle /\ MemIdle
    /\ PipeIdle /\ NormIdle /\ OrchIdle /\ PairIdle /\ AllIdle
    /\ StoreIdle /\ TypeIdle /\ SigIdle /\ ForeIdle
    /\ StageIdle /\ WebIdle /\ LorIdle /\ ScanIdle /\ SpotIdle
    /\ TvIdle
SpecAccumulate == AccInit /\ [][AccNext]_vars

MemInit ==
    /\ now = StartTime
    /\ GuardIdle /\ PubIdle /\ HarvIdle /\ AccIdle /\ MemIdle
    /\ PipeIdle /\ NormIdle /\ OrchIdle /\ PairIdle /\ AllIdle
    /\ StoreIdle /\ TypeIdle /\ SigIdle /\ ForeIdle
    /\ StageIdle /\ WebIdle /\ LorIdle /\ ScanIdle /\ SpotIdle
    /\ TvIdle
SpecMemory == MemInit /\ [][MemNext]_vars

PipeInit ==
    /\ now = StartTime
    /\ GuardIdle /\ PubIdle /\ HarvIdle /\ AccIdle /\ MemIdle
    /\ NormIdle /\ OrchIdle /\ PairIdle /\ AllIdle /\ StoreIdle
    /\ TypeIdle /\ SigIdle /\ ForeIdle /\ StageIdle /\ WebIdle
    /\ LorIdle /\ ScanIdle /\ SpotIdle /\ TvIdle
    /\ pPc = "harvest"
    /\ pUrl \in WebhookUrls
    /\ pRaw = <<>>
    /\ pStages = <<>>
    /\ pResults = NoResults
SpecPipeline == PipeInit /\ [][PipeNext]_vars

NormInit ==
    /\ now = StartTime
    /\ GuardIdle /\ PubIdle /\ HarvIdle /\ AccIdle /\ MemIdle
    /\ PipeIdle /\ OrchIdle /\ PairIdle /\ AllIdle /\ StoreIdle
    /\ TypeIdle /\ SigIdle /\ ForeIdle /\ StageIdle /\ WebIdle
    /\ LorIdle /\ ScanIdle /\ SpotIdle /\ TvIdle
    /\ nText \in OntologyTexts
    /\ nResult = NotCalled
SpecNormalize == NormInit /\ [][NormNext]_vars

OrchInit ==
    /\ now = StartTime
    /\ GuardIdle /\ PubIdle /\ HarvIdle /\ AccIdle /\ MemIdle
    /\ PipeIdle /\ NormIdle /\ PairIdle /\ AllIdle /\ StoreIdle
    /\ TypeIdle /\ SigIdle /\ ForeIdle /\ StageIdle /\ WebIdle
    /\ LorIdle /\ ScanIdle /\ SpotIdle /\ TvIdle
    /\ oPc = "which"
    /\ oRequest \in Requests
    /\ oRun = NoRun
    /\ oMessages = <<>>
SpecOrchestrator == OrchInit /\ [][OrchNext]_vars

KeysInit == GuardInit
SpecGuardKeys == KeysInit /\ [][KeysNext]_vars

PairInit ==
    /\ now = StartTime
    /\ GuardIdle /\ PubIdle /\ HarvIdle /\ AccIdle /\ MemIdle
    /\ PipeIdle /\ NormIdle /\ OrchIdle /\ PairIdle /\ AllIdle
    /\ StoreIdle /\ TypeIdle /\ SigIdle /\ ForeIdle
    /\ StageIdle /\ WebIdle /\ LorIdle /\ ScanIdle /\ SpotIdle
    /\ TvIdle
SpecGuardPair == PairInit /\ [][PairNext]_vars

AllInit ==
    /\ now = StartTime
    /\ GuardIdle /\ PubIdle /\ HarvIdle /\ AccIdle /\ MemIdle
    /\ PipeIdle /\ NormIdle /\ OrchIdle /\ PairIdle /\ AllIdle
    /\ StoreIdle /\ TypeIdle /\ SigIdle /\ ForeIdle
    /\ StageIdle /\ WebIdle /\ LorIdle /\ ScanIdle /\ SpotIdle
    /\ TvIdle
SpecHarvestAll == AllInit /\ [][AllNext]_vars

StoreInit ==
    /\ now = StartTime
    /\ GuardIdle /\ PubIdle /\ HarvIdle /\ AccIdle /\ MemIdle
    /\ PipeIdle /\ NormIdle /\ OrchIdle /\ PairIdle /\ AllIdle
    /\ StoreIdle /\ TypeIdle /\ SigIdle /\ ForeIdle
    /\ StageIdle /\ WebIdle /\ LorIdle /\ ScanIdle /\ SpotIdle
    /\ TvIdle
SpecStore == StoreInit /\ [][StoreNext]_vars

TypeInit ==
    /\ now = StartTime
    /\ GuardIdle /\ PubIdle /\ HarvIdle /\ AccIdle /\ MemIdle
    /\ PipeIdle /\ NormIdle /\ OrchIdle /\ PairIdle /\ AllIdle
    /\ StoreIdle /\ SigIdle /\ ForeIdle /\ StageIdle /\ WebIdle
    /\ LorIdle /\ ScanIdle /\ SpotIdle /\ TvIdle
    /\ tText \in SignalTexts
    /\ tResult = NotCalled
SpecSignalType == TypeInit /\ [][TypeNext]_vars

SigInit ==
    /\ now = StartTime
    /\ GuardIdle /\ PubIdle /\ HarvIdle /\ AccIdle /\ MemIdle
    /\ PipeIdle /\ NormIdle /\ OrchIdle /\ PairIdle /\ AllIdle
    /\ StoreIdle /\ TypeIdle /\ SigIdle /\ ForeIdle
    /\ StageIdle /\ WebIdle /\ LorIdle /\ ScanIdle /\ SpotIdle
    /\ TvIdle
SpecSignals == SigInit /\ [][SigNext]_vars

ForeInit ==
    /\ now = StartTime
    /\ GuardIdle /\ PubIdle /\ HarvIdle /\ AccIdle /\ MemIdle
    /\ PipeIdle /\ NormIdle /\ OrchIdle /\ PairIdle /\ AllIdle
    /\ StoreIdle /\ TypeIdle /\ SigIdle /\ StageIdle /\ WebIdle
    /\ LorIdle /\ ScanIdle /\ SpotIdle /\ TvIdle
    /\ fBeliefs \in BeliefItems
    /\ fResult = NotCalled
SpecForecast == ForeInit /\ [][ForeNext]_vars

StageInit ==
    /\ now = StartTime
    /\ GuardIdle /\ PubIdle /\ HarvIdle /\ AccIdle /\ MemIdle
    /\ PipeIdle /\ NormIdle /\ OrchIdle /\ PairIdle /\ AllIdle
    /\ StoreIdle /\ TypeIdle /\ SigIdle /\ ForeIdle
    /\ StageIdle /\ WebIdle /\ LorIdle /\ ScanIdle /\ SpotIdle
    /\ TvIdle
SpecStages == StageInit /\ [][StageNext]_vars

WebInit ==
    /\ now = StartTime
    /\ GuardIdle /\ PubIdle /\ HarvIdle /\ AccIdle /\ MemIdle
    /\ PipeIdle /\ NormIdle /\ OrchIdle /\ PairIdle /\ AllIdle
    /\ StoreIdle /\ TypeIdle /\ SigIdle /\ ForeIdle
    /\ StageIdle /\ LorIdle /\ ScanIdle /\ SpotIdle /\ TvIdle
    /\ wCaller \in {"run_full_pipeline", "webhook.py"}
    /\ wTier \in (IF wCaller = "run_full_pipeline" THEN {"operator"} ELSE Tiers)
    /\ wPrimitives \in PrimitiveLists
    /\ wPosts = <<>>
    /\ wResult = NotCalled
    /\ wReturned = NotCalled
SpecWebhook == WebInit /\ [][WebNext]_vars

LorInit ==
    /\ now = StartTime
    /\ GuardIdle /\ PubIdle /\ HarvIdle /\ AccIdle /\ MemIdle
    /\ PipeIdle /\ NormIdle /\ OrchIdle /\ PairIdle /\ AllIdle
    /\ StoreIdle /\ TypeIdle /\ SigIdle /\ ForeIdle
    /\ StageIdle /\ WebIdle /\ ScanIdle /\ SpotIdle /\ TvIdle
    /\ \/ /\ \E c \in FilterCases \cup ScoreCases :
                /\ lProfile = c[1]
                /\ lOpp = c[2]
          /\ lOpps = <<>>
       \/ /\ lProfile = DefaultProfile
          /\ lOpp = OppBase("Clerk", <<"R", "5", ",", "0">>)
          /\ lOpps \in OppLists
    /\ lResult = NotCalled
    /\ lReport = NotCalled
SpecLor == LorInit /\ [][LorNext]_vars

ScanInit ==
    /\ now = StartTime
    /\ GuardIdle /\ PubIdle /\ HarvIdle /\ AccIdle /\ MemIdle
    /\ PipeIdle /\ NormIdle /\ OrchIdle /\ PairIdle /\ AllIdle
    /\ StoreIdle /\ TypeIdle /\ SigIdle /\ ForeIdle
    /\ StageIdle /\ WebIdle /\ LorIdle /\ ScanIdle /\ SpotIdle
    /\ TvIdle
SpecScan == ScanInit /\ [][ScanNext]_vars

SpotInit ==
    /\ now = StartTime
    /\ GuardIdle /\ PubIdle /\ HarvIdle /\ AccIdle /\ MemIdle
    /\ PipeIdle /\ NormIdle /\ OrchIdle /\ PairIdle /\ AllIdle
    /\ StoreIdle /\ TypeIdle /\ SigIdle /\ ForeIdle
    /\ StageIdle /\ WebIdle /\ LorIdle /\ ScanIdle /\ TvIdle
    /\ spEnv \in SpotifyEnvs
    /\ spArgs \in SpotifyArgs
    /\ spPc = "search_track"
    /\ access_token = None
    /\ spTrack = Nothing
    /\ spMetadata = Nothing
    /\ spTrace = <<>>
SpecSpotify == SpotInit /\ [][SpotNext]_vars

TvInit ==
    /\ now = StartTime
    /\ GuardIdle /\ PubIdle /\ HarvIdle /\ AccIdle /\ MemIdle /\ PipeIdle /\ NormIdle
    /\ OrchIdle /\ PairIdle /\ AllIdle /\ StoreIdle /\ TypeIdle /\ SigIdle
    /\ ForeIdle /\ StageIdle /\ WebIdle /\ LorIdle /\ ScanIdle /\ SpotIdle
    /\ tvText \in TvTexts
    /\ tvEnv \in {None, "10.0.0.9"}
    /\ tvArgv = NotCalled
    /\ tvDevice = "not_asked"
    /\ tvShell = <<>>
    /\ tvReply = NotCalled
SpecTv == TvInit /\ [][TvNext]_vars

====
